---- MODULE Spec2Model ----
(***************************************************************************)
(* TradeFox: portfolio rows, trade history and FIFO profit-and-loss.       *)
(*                                                                         *)
(* The model follows the rows of one user_id (every statement of the       *)
(* services is keyed by user_id).  Quantities and prices are integers;     *)
(* the stored average cost is an exact fraction <<numerator, denominator>> *)
(* in lowest terms.  A request handler is a sequence of database           *)
(* statements; each statement is one step, because the handler yields at   *)
(* every `await db.query`.                                                 *)
(***************************************************************************)
EXTENDS Integers, Sequences, FiniteSets, TLC

\* ---------------------------------------------------------------- bounds
MaxTrades == 4
MaxFunds == 1
MaxConcTrades == 1
MaxConcFunds == 1
MaxApiTrades == 1
MaxApiFunds == 2
MaxPnLTrades == 2
MaxPnLFunds == 1
MaxClockTrades == 3
MaxClockFunds == 1
MaxHistory == 3
MaxLotTrades == 4
MaxLotFunds == 1

\* ---------------------------------------------------------------- inputs
Reqs == {1, 2}
BaseSyms == {"BTC", "ETH"}
QuoteSym == "USDC"
Syms == BaseSyms \cup {QuoteSym}
Sides == {"buy", "sell"}
Qtys == {1, 2}
Prices == {100, 120}
Amounts == {300, 100}

\* request bodies as they arrive, before the schema is applied
RawSides == {"buy", "sell", "hold"}
RawQtys == {0, 1, 2}
RawPrices == {-100, 100, 120}
RawAmounts == {0, 100, 300}

VARIABLES
    portfolio,   \* table portfolio: symbol -> row (or NoRow)
    trades,      \* table trades, in insertion order
    pc,          \* request slot -> the statement its handler is about to run
    req,         \* request slot -> the request being handled
    plan,        \* request slot -> the write its handler has decided on
    result,      \* request slot -> how its last request ended
    funded,      \* number of update_usdc_balance requests started
    lotQueue,    \* ledger: base symbol -> entry price of every open unit, oldest first
    realized,    \* ledger: realized PnL accumulated at each accepted sell
    bought,      \* ledger: base symbol -> units of the accepted buys
    sold,        \* ledger: base symbol -> units of the accepted sells
    tradeFx,     \* per trade row: were its position and USDC updates applied
    epochBase,   \* the tables when the first of the overlapping requests started
    epochReqs,   \* the requests started since then
    priceCache,  \* PythClient.priceCache: symbol -> cached price and its freshness
    response     \* the last HTTP response sent by a controller

dbVars == <<portfolio, trades>>
reqVars == <<pc, req, plan>>
ledgerVars == <<lotQueue, realized, bought, sold>>
epochVars == <<epochBase, epochReqs>>
apiVars == <<priceCache, response>>
vars == <<portfolio, trades, pc, req, plan, result, funded,
          lotQueue, realized, bought, sold, tradeFx, epochBase, epochReqs,
          priceCache, response>>

\* ------------------------------------------------------------ arithmetic
RECURSIVE GCD(_, _)
GCD(a, b) == IF b = 0 THEN a ELSE GCD(b, a % b)

\* a fraction n/d (n >= 0, d > 0) in lowest terms
Frac(n, d) == IF n = 0 THEN <<0, 1>> ELSE <<n \div GCD(n, d), d \div GCD(n, d)>>

RECURSIVE SumSeq(_)
SumSeq(s) == IF s = <<>> THEN 0 ELSE Head(s) + SumSeq(Tail(s))

\* ------------------------------------------------------------- the tables
NoRow == [present |-> FALSE, quantity |-> 0, avg |-> <<0, 1>>]
Row(q, a) == [present |-> TRUE, quantity |-> q, avg |-> a]

NoPlan == [op |-> "none", quantity |-> 0, avg |-> <<0, 1>>]
Plan(op, q, a) == [op |-> op, quantity |-> q, avg |-> a]
Throw(msg) == [op |-> "throw", quantity |-> 0, avg |-> <<0, 1>>, msg |-> msg]

NoReq == [kind |-> "none"]
Order(base, side, qty, price) ==
    [kind |-> "order", base |-> base, side |-> side, qty |-> qty, price |-> price,
     tradeId |-> 0]
Funds(amount, action) == [kind |-> "funds", amount |-> amount, action |-> action]

\* one row of the trades table
TradeRow(id, rq, at) ==
    [id |-> id, base |-> rq.base, price |-> rq.price, qty |-> rq.qty,
     quoteQty |-> rq.price * rq.qty, side |-> rq.side, status |-> "EXECUTED",
     created_at |-> at]

\* ORDER BY created_at ASC: repeatedly take the row with the least created_at
RECURSIVE OrderByCreatedAt(_)
OrderByCreatedAt(rows) ==
    IF rows = <<>> THEN <<>>
    ELSE LET i == CHOOSE j \in 1..Len(rows) :
                      \A k \in 1..Len(rows) :
                          \/ rows[j].created_at < rows[k].created_at
                          \/ (rows[j].created_at = rows[k].created_at /\ j <= k)
             rest == [k \in 1..(Len(rows) - 1) |-> IF k < i THEN rows[k] ELSE rows[k + 1]]
         IN  <<rows[i]>> \o OrderByCreatedAt(rest)

\* ------------------------------------------------- PortfolioService (pure)
\* SELECT quantity ... WHERE user_id AND symbol; 0 when there is no row
getAssetBalance(pf, sym) == IF pf[sym].present THEN pf[sym].quantity ELSE 0

\* a matching loop that drops the oldest lot whole when the sell is smaller
matchSellQueueWholeLot(positionQueue, remainingSellQuantity) ==
    IF remainingSellQuantity > 0 /\ Len(positionQueue) > 0
    THEN Tail(positionQueue)
    ELSE positionQueue

\* a matching loop that shifts a lot only when it is smaller than the rest of
\* the sell, so a lot that the sell matches exactly stays with quantity 0
RECURSIVE matchSellQueueStrict(_, _)
matchSellQueueStrict(positionQueue, remainingSellQuantity) ==
    IF remainingSellQuantity > 0 /\ Len(positionQueue) > 0
    THEN LET position == Head(positionQueue)
         IN  IF position.quantity < remainingSellQuantity
             THEN matchSellQueueStrict(Tail(positionQueue),
                                       remainingSellQuantity - position.quantity)
             ELSE <<[position EXCEPT
                        !.quantity = position.quantity - remainingSellQuantity]>>
                  \o Tail(positionQueue)
    ELSE positionQueue

\* the while loop of recalculateAverageCostFIFO: consume from the head
RECURSIVE matchSellQueue(_, _)
matchSellQueue(positionQueue, remainingSellQuantity) ==
    IF remainingSellQuantity > 0 /\ Len(positionQueue) > 0
    THEN LET position == Head(positionQueue)
         IN  IF position.quantity <= remainingSellQuantity
             THEN matchSellQueue(Tail(positionQueue),
                                 remainingSellQuantity - position.quantity)
             ELSE <<[position EXCEPT
                        !.quantity = position.quantity - remainingSellQuantity]>>
                  \o Tail(positionQueue)
    ELSE positionQueue

\* a replay in which a buy adds its quantity to the newest open lot
RECURSIVE replayPositionQueueMerging(_, _)
replayPositionQueueMerging(positionQueue, rows) ==
    IF rows = <<>> THEN positionQueue
    ELSE LET trade == Head(rows)
             n == Len(positionQueue)
         IN  replayPositionQueueMerging(
                 IF trade.side = "buy"
                 THEN IF n = 0
                      THEN <<[quantity |-> trade.qty, price |-> trade.price]>>
                      ELSE [positionQueue EXCEPT ![n].quantity = @ + trade.qty]
                 ELSE matchSellQueue(positionQueue, trade.qty),
                 Tail(rows))

\* the for loop of recalculateAverageCostFIFO over the selected rows
RECURSIVE replayPositionQueue(_, _)
replayPositionQueue(positionQueue, rows) ==
    IF rows = <<>> THEN positionQueue
    ELSE LET trade == Head(rows)
         IN  replayPositionQueue(
                 IF trade.side = "buy"
                 THEN Append(positionQueue, [quantity |-> trade.qty, price |-> trade.price])
                 ELSE matchSellQueue(positionQueue, trade.qty),
                 Tail(rows))

\* the rows recalculateAverageCostFIFO selects for one asset
tradesOfAsset(tr, base) ==
    OrderByCreatedAt(SelectSeq(tr, LAMBDA t : t.base = base /\ t.status = "EXECUTED"))

totalCostOf(queue) == SumSeq([i \in 1..Len(queue) |-> queue[i].quantity * queue[i].price])
totalQuantityOf(queue) == SumSeq([i \in 1..Len(queue) |-> queue[i].quantity])

recalculateAverageCostFIFO(tr, base) ==
    LET positionQueue == replayPositionQueue(<<>>, tradesOfAsset(tr, base))
        totalCost == totalCostOf(positionQueue)
        totalQuantity == totalQuantityOf(positionQueue)
    IN  IF totalQuantity > 0 THEN Frac(totalCost, totalQuantity) ELSE <<0, 1>>

\* a buy that averages the old average and the new price without weights
newAvgPriceOnBuyUnweighted(current, quantity, price) ==
    Frac(current.avg[1] + price * current.avg[2], 2 * current.avg[2])

\* the branch of updatePortfolio taken on the selected row `current`
newAvgPriceOnBuy(current, quantity, price) ==
    Frac(current.quantity * current.avg[1] + quantity * price * current.avg[2],
         current.avg[2] * (current.quantity + quantity))

\* a buy that stores the bought quantity instead of adding it to the position
updatePortfolioPlanOverwrite(current, rq) ==
    IF ~current.present
    THEN IF rq.side = "buy"
         THEN Plan("insert", rq.qty, <<rq.price, 1>>)
         ELSE Throw("Insufficient balance for sell order")
    ELSE IF rq.side = "buy"
         THEN Plan("update", rq.qty, newAvgPriceOnBuy(current, rq.qty, rq.price))
         ELSE IF current.quantity < rq.qty
              THEN Throw("Insufficient balance for sell order")
              ELSE IF current.quantity - rq.qty = 0
                   THEN Plan("delete", 0, <<0, 1>>)
                   ELSE Plan("recalc", current.quantity - rq.qty, <<0, 1>>)

\* a sell of the whole position that keeps the row with quantity 0
updatePortfolioPlanZeroRow(current, rq) ==
    IF ~current.present
    THEN IF rq.side = "buy"
         THEN Plan("insert", rq.qty, <<rq.price, 1>>)
         ELSE Throw("Insufficient balance for sell order")
    ELSE IF rq.side = "buy"
         THEN Plan("update", current.quantity + rq.qty,
                   newAvgPriceOnBuy(current, rq.qty, rq.price))
         ELSE IF current.quantity < rq.qty
              THEN Throw("Insufficient balance for sell order")
              ELSE IF current.quantity - rq.qty = 0
                   THEN Plan("updateQty", 0, <<0, 1>>)
                   ELSE Plan("recalc", current.quantity - rq.qty, <<0, 1>>)

updatePortfolioPlan(current, rq) ==
    IF ~current.present
    THEN IF rq.side = "buy"
         THEN Plan("insert", rq.qty, <<rq.price, 1>>)
         ELSE Throw("Insufficient balance for sell order")
    ELSE IF rq.side = "buy"
         THEN Plan("update", current.quantity + rq.qty,
                   newAvgPriceOnBuy(current, rq.qty, rq.price))
         ELSE IF current.quantity < rq.qty
              THEN Throw("Insufficient balance for sell order")
              ELSE IF current.quantity - rq.qty = 0
                   THEN Plan("delete", 0, <<0, 1>>)
                   ELSE Plan("recalc", current.quantity - rq.qty, <<0, 1>>)

\* a sell that reduces the quantity and leaves avg_buying_price as it was
sellUpdatePlanKeepAverage(newQuantity, tr, base) ==
    Plan("updateQty", newQuantity, <<0, 1>>)

\* the sell branch's UPDATE, once recalculateAverageCostFIFO has returned
sellUpdatePlan(newQuantity, tr, base) ==
    Plan("update", newQuantity, recalculateAverageCostFIFO(tr, base))

\* a buy that is not charged to the USDC balance
updateUSDCBalancePlanNoDebit(current, quoteQuantity, side) ==
    IF ~current.present
    THEN IF side = "sell"
         THEN Plan("insert", quoteQuantity, <<1, 1>>)
         ELSE Throw("Insufficient USDC balance")
    ELSE IF side = "buy"
         THEN IF current.quantity - quoteQuantity < 0
              THEN Throw("Insufficient USDC balance")
              ELSE Plan("updateQty", current.quantity, <<0, 1>>)
         ELSE Plan("updateQty", current.quantity + quoteQuantity, <<0, 1>>)


\* the branch of updateUSDCBalance taken on the selected USDC row
updateUSDCBalancePlan(current, quoteQuantity, side) ==
    IF ~current.present
    THEN IF side = "sell"
         THEN Plan("insert", quoteQuantity, <<1, 1>>)
         ELSE Throw("Insufficient USDC balance")
    ELSE IF side = "buy"
         THEN IF current.quantity - quoteQuantity < 0
              THEN Throw("Insufficient USDC balance")
              ELSE IF current.quantity - quoteQuantity = 0
                   THEN Plan("delete", 0, <<0, 1>>)
                   ELSE Plan("updateQty", current.quantity - quoteQuantity, <<0, 1>>)
         ELSE Plan("updateQty", current.quantity + quoteQuantity, <<0, 1>>)

\* a withdrawal that takes what there is instead of rejecting
updateUSDCBalanceDirectPlanClamp(current, amount, action) ==
    IF ~current.present
    THEN IF action = "add"
         THEN Plan("insert", amount, <<1, 1>>)
         ELSE Plan("delete", 0, <<0, 1>>)
    ELSE IF action = "add"
         THEN Plan("updateQty", current.quantity + amount, <<0, 1>>)
         ELSE IF current.quantity - amount <= 0
              THEN Plan("delete", 0, <<0, 1>>)
              ELSE Plan("updateQty", current.quantity - amount, <<0, 1>>)

\* the branch of updateUSDCBalanceDirect taken on the selected USDC row
updateUSDCBalanceDirectPlan(current, amount, action) ==
    IF ~current.present
    THEN IF action = "add"
         THEN Plan("insert", amount, <<1, 1>>)
         ELSE Throw("Insufficient USDC balance")
    ELSE IF action = "add"
         THEN Plan("updateQty", current.quantity + amount, <<0, 1>>)
         ELSE IF current.quantity - amount < 0
              THEN Throw("Insufficient USDC balance")
              ELSE IF current.quantity - amount = 0
                   THEN Plan("delete", 0, <<0, 1>>)
                   ELSE Plan("updateQty", current.quantity - amount, <<0, 1>>)

\* INSERT fails on UNIQUE(user_id, asset_id); UPDATE and DELETE of a missing
\* row change nothing
writeFails(pf, sym, w) == w.op = "insert" /\ pf[sym].present

applyWrite(pf, sym, w) ==
    CASE w.op = "insert" -> [pf EXCEPT ![sym] = Row(w.quantity, w.avg)]
      [] w.op = "update" ->
            IF pf[sym].present THEN [pf EXCEPT ![sym] = Row(w.quantity, w.avg)] ELSE pf
      [] w.op = "updateQty" ->
            IF pf[sym].present THEN [pf EXCEPT ![sym].quantity = w.quantity] ELSE pf
      [] w.op = "delete" -> [pf EXCEPT ![sym] = NoRow]
      [] OTHER -> pf

\* a holdings list that does not set the quote asset apart
holdingSymsWithQuote(pf) == {s \in Syms : pf[s].present /\ pf[s].quantity > 0}

\* getPortfolio: the symbols listed as holdings, and the separate USDC balance
holdingSyms(pf) == {s \in Syms : pf[s].present /\ pf[s].quantity > 0 /\ s # QuoteSym}
usdcBalanceOf(pf) ==
    IF pf[QuoteSym].present /\ pf[QuoteSym].quantity > 0 THEN pf[QuoteSym].quantity ELSE 0

\* ----------------------------------------------------- TradeService (pure)
quoteQuantityOf(rq) == rq.price * rq.qty

\* a validation that checks buy orders only
validateBalancesBuyOnly(pf, rq) ==
    IF rq.side = "buy" /\ getAssetBalance(pf, QuoteSym) < quoteQuantityOf(rq)
    THEN "Insufficient USDC balance (order)" ELSE "ok"

\* a validation that also rejects a buy costing exactly the balance
validateBalancesStrict(pf, rq) ==
    IF rq.side = "buy"
    THEN IF getAssetBalance(pf, QuoteSym) <= quoteQuantityOf(rq)
         THEN "Insufficient USDC balance (order)" ELSE "ok"
    ELSE IF getAssetBalance(pf, rq.base) < rq.qty
         THEN "Insufficient base balance (order)" ELSE "ok"

\* the balance validation of createOrder
validateBalances(pf, rq) ==
    IF rq.side = "buy"
    THEN IF getAssetBalance(pf, QuoteSym) < quoteQuantityOf(rq)
         THEN "Insufficient USDC balance (order)" ELSE "ok"
    ELSE IF getAssetBalance(pf, rq.base) < rq.qty
         THEN "Insufficient base balance (order)" ELSE "ok"

\* an upsert that keeps one trade row per asset, replacing the earlier one
insertTradeReplacing(tr, rq) ==
    Append(SelectSeq(tr, LAMBDA t : t.base # rq.base),
           TradeRow(Len(tr) + 1, rq, Len(tr) + 1))

\* INSERT INTO trades ... 'EXECUTED'; created_at defaults to the insert time
insertTrade(tr, rq) == Append(tr, TradeRow(Len(tr) + 1, rq, Len(tr) + 1))

\* createOrder without the balance validation in front of the INSERT
createOrderUnvalidated(pf, tr, rq) ==
    LET tr1 == insertTrade(tr, rq)
        p1 == updatePortfolioPlan(pf[rq.base], rq)
    IN  IF p1.op = "throw"
        THEN [portfolio |-> pf, trades |-> tr1, result |-> p1.msg,
              pos |-> FALSE, usdc |-> FALSE]
        ELSE
        LET w1 == IF p1.op = "recalc" THEN sellUpdatePlan(p1.quantity, tr1, rq.base) ELSE p1
            pf1 == applyWrite(pf, rq.base, w1)
            p2 == updateUSDCBalancePlan(pf1[QuoteSym], quoteQuantityOf(rq), rq.side)
        IN  IF p2.op = "throw"
            THEN [portfolio |-> pf1, trades |-> tr1, result |-> p2.msg,
                  pos |-> TRUE, usdc |-> FALSE]
            ELSE [portfolio |-> applyWrite(pf1, QuoteSym, p2), trades |-> tr1,
                  result |-> "ok", pos |-> TRUE, usdc |-> TRUE]

\* createOrder run with no other request in between its statements
createOrder(pf, tr, rq) ==
    LET v == validateBalances(pf, rq) IN
    IF v # "ok"
    THEN [portfolio |-> pf, trades |-> tr, result |-> v, pos |-> FALSE, usdc |-> FALSE]
    ELSE
    LET tr1 == insertTrade(tr, rq)
        p1 == updatePortfolioPlan(pf[rq.base], rq)
    IN  IF p1.op = "throw"
        THEN [portfolio |-> pf, trades |-> tr1, result |-> p1.msg,
              pos |-> FALSE, usdc |-> FALSE]
        ELSE
        LET w1 == IF p1.op = "recalc" THEN sellUpdatePlan(p1.quantity, tr1, rq.base) ELSE p1
            pf1 == applyWrite(pf, rq.base, w1)
            p2 == updateUSDCBalancePlan(pf1[QuoteSym], quoteQuantityOf(rq), rq.side)
        IN  IF p2.op = "throw"
            THEN [portfolio |-> pf1, trades |-> tr1, result |-> p2.msg,
                  pos |-> TRUE, usdc |-> FALSE]
            ELSE [portfolio |-> applyWrite(pf1, QuoteSym, p2), trades |-> tr1,
                  result |-> "ok", pos |-> TRUE, usdc |-> TRUE]

\* the update_usdc_balance handler run with no other request in between
updateUSDCBalanceDirect(pf, amount, action) ==
    LET p == updateUSDCBalanceDirectPlan(pf[QuoteSym], amount, action)
    IN  IF p.op = "throw"
        THEN [portfolio |-> pf, result |-> p.msg, balance |-> 0]
        ELSE [portfolio |-> applyWrite(pf, QuoteSym, p), result |-> "ok",
              balance |-> p.quantity]

\* ------------------------------------------------------- PnLService (pure)
\* a matching loop that consumes the newest lot first
RECURSIVE matchSellPnLNewestFirst(_, _, _, _)
matchSellPnLNewestFirst(positionQueue, remainingSellQuantity, price, pnl) ==
    IF remainingSellQuantity > 0 /\ Len(positionQueue) > 0
    THEN LET position == positionQueue[Len(positionQueue)]
             front == SubSeq(positionQueue, 1, Len(positionQueue) - 1)
         IN  IF position.quantity <= remainingSellQuantity
             THEN matchSellPnLNewestFirst(front,
                               remainingSellQuantity - position.quantity, price,
                               pnl + (price - position.price) * position.quantity)
             ELSE [queue |-> Append(front, [position EXCEPT
                                  !.quantity = position.quantity - remainingSellQuantity]),
                   pnl |-> pnl + (price - position.price) * remainingSellQuantity,
                   unmatched |-> 0]
    ELSE [queue |-> positionQueue, pnl |-> pnl, unmatched |-> remainingSellQuantity]

\* the while loop of calculateRealizedPnL: the queue left and the PnL added
RECURSIVE matchSellPnL(_, _, _, _)
matchSellPnL(positionQueue, remainingSellQuantity, price, pnl) ==
    IF remainingSellQuantity > 0 /\ Len(positionQueue) > 0
    THEN LET position == Head(positionQueue)
         IN  IF position.quantity <= remainingSellQuantity
             THEN matchSellPnL(Tail(positionQueue),
                               remainingSellQuantity - position.quantity, price,
                               pnl + (price - position.price) * position.quantity)
             ELSE [queue |-> <<[position EXCEPT
                                  !.quantity = position.quantity - remainingSellQuantity]>>
                             \o Tail(positionQueue),
                   pnl |-> pnl + (price - position.price) * remainingSellQuantity,
                   unmatched |-> 0]
    ELSE [queue |-> positionQueue, pnl |-> pnl, unmatched |-> remainingSellQuantity]

\* a replay that keeps one queue for all symbols
RECURSIVE replayRealizedPnLSharedQueue(_, _, _)
replayRealizedPnLSharedQueue(positionQueues, realizedPnL, rows) ==
    IF rows = <<>> THEN [queues |-> positionQueues, realizedPnL |-> realizedPnL]
    ELSE LET trade == Head(rows)
             positionQueue == positionQueues["BTC"]
         IN  IF trade.side = "buy"
             THEN replayRealizedPnLSharedQueue(
                      [positionQueues EXCEPT !["BTC"] =
                          Append(positionQueue, [quantity |-> trade.qty, price |-> trade.price])],
                      realizedPnL, Tail(rows))
             ELSE LET m == matchSellPnL(positionQueue, trade.qty, trade.price, 0)
                  IN  replayRealizedPnLSharedQueue([positionQueues EXCEPT !["BTC"] = m.queue],
                                        realizedPnL + m.pnl, Tail(rows))

\* a replay in which a buy marks the open lots of the asset to its price
RECURSIVE replayRealizedPnLMarkOnBuy(_, _, _)
replayRealizedPnLMarkOnBuy(positionQueues, realizedPnL, rows) ==
    IF rows = <<>> THEN [queues |-> positionQueues, realizedPnL |-> realizedPnL]
    ELSE LET trade == Head(rows)
             positionQueue == positionQueues[trade.base]
         IN  IF trade.side = "buy"
             THEN replayRealizedPnLMarkOnBuy(
                      [positionQueues EXCEPT ![trade.base] =
                          Append(positionQueue, [quantity |-> trade.qty, price |-> trade.price])],
                      realizedPnL + trade.price * totalQuantityOf(positionQueue)
                                  - totalCostOf(positionQueue),
                      Tail(rows))
             ELSE LET m == matchSellPnL(positionQueue, trade.qty, trade.price, 0)
                  IN  replayRealizedPnLMarkOnBuy(
                          [positionQueues EXCEPT ![trade.base] = m.queue],
                          realizedPnL + m.pnl, Tail(rows))

\* the for loop of calculateRealizedPnL: one queue per symbol, one running sum
RECURSIVE replayRealizedPnL(_, _, _)
replayRealizedPnL(positionQueues, realizedPnL, rows) ==
    IF rows = <<>> THEN [queues |-> positionQueues, realizedPnL |-> realizedPnL]
    ELSE LET trade == Head(rows)
             positionQueue == positionQueues[trade.base]
         IN  IF trade.side = "buy"
             THEN replayRealizedPnL(
                      [positionQueues EXCEPT ![trade.base] =
                          Append(positionQueue, [quantity |-> trade.qty, price |-> trade.price])],
                      realizedPnL, Tail(rows))
             ELSE LET m == matchSellPnL(positionQueue, trade.qty, trade.price, 0)
                  IN  replayRealizedPnL([positionQueues EXCEPT ![trade.base] = m.queue],
                                        realizedPnL + m.pnl, Tail(rows))

\* calculateRealizedPnL reaches console.warn('Unmatched sell quantity ...') on
\* these rows: a sell ends its matching loop with remainingSellQuantity > 0
RECURSIVE unmatchedSellQuantity(_, _)
unmatchedSellQuantity(positionQueues, rows) ==
    IF rows = <<>> THEN FALSE
    ELSE LET trade == Head(rows)
             positionQueue == positionQueues[trade.base]
         IN  IF trade.side = "buy"
             THEN unmatchedSellQuantity(
                      [positionQueues EXCEPT ![trade.base] =
                          Append(positionQueue, [quantity |-> trade.qty, price |-> trade.price])],
                      Tail(rows))
             ELSE LET m == matchSellPnL(positionQueue, trade.qty, trade.price, 0)
                  IN  \/ m.unmatched > 0
                      \/ unmatchedSellQuantity([positionQueues EXCEPT ![trade.base] = m.queue],
                                               Tail(rows))


executedTrades(tr) == OrderByCreatedAt(SelectSeq(tr, LAMBDA t : t.status = "EXECUTED"))

calculateRealizedPnL(tr) ==
    replayRealizedPnL([s \in BaseSyms |-> <<>>], 0, executedTrades(tr)).realizedPnL

\* ------------------------------------------------------ signed fractions
\* n/d (d > 0) in lowest terms, n of either sign
SFrac(n, d) == IF n < 0 THEN <<0 - Frac(0 - n, d)[1], Frac(0 - n, d)[2]>> ELSE Frac(n, d)
AddFrac(a, b) == SFrac(a[1] * b[2] + b[1] * a[2], a[2] * b[2])

\* ------------------------------------------------------- PythClient (pure)
\* symbols that have a price feed id, and the static fallback prices
PRICE_FEED_IDS == {"BTC", "ETH"}
FALLBACK_PRICES == [s \in {"BTC", "ETH"} |-> IF s = "BTC" THEN 90000 ELSE 3000]

\* FALLBACK_PRICES[symbol] || 0
fallbackPrice(symbol) ==
    IF symbol \in DOMAIN FALLBACK_PRICES THEN FALLBACK_PRICES[symbol] ELSE 0

\* what the remote lookup of a symbol can do: fetch rejects, the status is not
\* OK, the body has no parsed price, or the body carries a price and an exponent
Lookups ==
    {[kind |-> "networkError"], [kind |-> "notOk"], [kind |-> "noData"],
     [kind |-> "quote", price |-> 1100, expo |-> -1]}

RECURSIVE Pow10(_)
Pow10(e) == IF e = 0 THEN 1 ELSE 10 * Pow10(e - 1)

\* parseFloat(priceString) * Math.pow(10, expo)
actualPriceOf(priceValue, expo) ==
    IF expo >= 0 THEN priceValue * Pow10(expo) ELSE priceValue \div Pow10(0 - expo)

NoCache == [present |-> FALSE, fresh |-> FALSE, price |-> 0]
Cached(price) == [present |-> TRUE, fresh |-> TRUE, price |-> price]

Returned(price, cached) == [threw |-> FALSE, price |-> price, cached |-> cached]
Thrown(cached) == [threw |-> TRUE, price |-> 0, cached |-> cached]

\* the body of the try block of getPrice
tryGetPrice(cached, symbol, market) ==
    IF symbol \notin PRICE_FEED_IDS THEN Returned(fallbackPrice(symbol), cached)
    ELSE LET lookup == market[symbol]
         IN  IF lookup.kind = "networkError" \/ lookup.kind = "notOk" THEN Thrown(cached)
             ELSE IF lookup.kind = "quote"
                  THEN Returned(actualPriceOf(lookup.price, lookup.expo),
                                Cached(actualPriceOf(lookup.price, lookup.expo)))
                  ELSE Returned(fallbackPrice(symbol), cached)

\* getPrice with the catch block left out: the error of the lookup escapes
getPriceUncaught(cached, symbol, market) ==
    IF cached.present /\ cached.fresh THEN Returned(cached.price, cached)
    ELSE tryGetPrice(cached, symbol, market)

\* PythClient.getPrice: the cache, the try block, the catch block
getPrice(cached, symbol, market) ==
    IF cached.present /\ cached.fresh THEN Returned(cached.price, cached)
    ELSE LET t == tryGetPrice(cached, symbol, market)
         IN  IF t.threw THEN Returned(fallbackPrice(symbol), cached) ELSE t

\* ------------------------------------------------ PythClient and the clock
\* private cacheTTL = 60000
cacheTTL == 60000

\* A cache entry of the timed specification keeps the milliseconds since it
\* was stored: Date.now() - cached.timestamp.
StoredAt(price, age) == [present |-> TRUE, age |-> age, price |-> price]

\* a cache test that still serves an entry exactly cacheTTL old
cachedViewInclusive(entry) ==
    IF ~entry.present THEN NoCache
    ELSE [present |-> TRUE, fresh |-> entry.age <= cacheTTL, price |-> entry.price]

\* cached && Date.now() - cached.timestamp < this.cacheTTL
cachedView(entry) ==
    IF ~entry.present THEN NoCache
    ELSE [present |-> TRUE, fresh |-> entry.age < cacheTTL, price |-> entry.price]

\* getPrice reaches the fetch: no fresh entry and a feed id for the symbol
contactsRemote(cached, symbol) ==
    ~(cached.present /\ cached.fresh) /\ symbol \in PRICE_FEED_IDS


\* ----------------------------------- PortfolioService.getPortfolio (pure)
\* the difference taken the other way round: cost minus market value
unrealizedPnlOfCostMinusValue(row, currentPrice) ==
    SFrac((row.avg[1] - currentPrice * row.avg[2]) * row.quantity, row.avg[2])

\* (currentPrice - avgBuyingPrice) * quantity
unrealizedPnlOf(row, currentPrice) ==
    SFrac((currentPrice * row.avg[2] - row.avg[1]) * row.quantity, row.avg[2])

\* the for loop of getPortfolio: one getPrice per holding, USDC kept apart.
\* `priced` are the symbols getPrice was called for.
getPortfolio(pf, cache, market) ==
    LET hs == holdingSyms(pf)
        px == [s \in hs |-> getPrice(cache[s], s, market)]
    IN  [threw |-> \E s \in hs : px[s].threw,
         holdings |-> [s \in hs |->
                          [quantity |-> pf[s].quantity,
                           avg_buying_price |-> pf[s].avg,
                           current_price |-> px[s].price,
                           unrealized_pnl |-> unrealizedPnlOf(pf[s], px[s].price)]],
         usdcBalance |-> usdcBalanceOf(pf),
         priced |-> hs,
         cache |-> [s \in DOMAIN cache |-> IF s \in hs THEN px[s].cached ELSE cache[s]]]

\* ------------------------------------------- PnLService, continued (pure)
\* holdings.reduce((total, holding) => total + holding.unrealized_pnl, 0)
RECURSIVE reduceUnrealized(_, _, _)
reduceUnrealized(holdings, S, total) ==
    IF S = {} THEN total
    ELSE LET s == CHOOSE x \in S : TRUE
         IN  reduceUnrealized(holdings, S \ {s}, AddFrac(total, holdings[s].unrealized_pnl))

calculateUnrealizedPnL(holdings) == reduceUnrealized(holdings, DOMAIN holdings, <<0, 1>>)

\* a total that reports the realized part only
totalPnLRealizedOnly(realizedPnL, unrealizedPnL) == <<realizedPnL, 1>>

\* realizedPnL + unrealizedPnL
totalPnLOf(realizedPnL, unrealizedPnL) == AddFrac(<<realizedPnL, 1>>, unrealizedPnL)

getPnL(pf, tr, cache, market) ==
    LET realizedPnL == calculateRealizedPnL(tr)
        view == getPortfolio(pf, cache, market)
        unrealizedPnL == calculateUnrealizedPnL(view.holdings)
    IN  [threw |-> view.threw,
         realized_pnl |-> realizedPnL,
         unrealized_pnl |-> unrealizedPnL,
         total_pnl |-> totalPnLOf(realizedPnL, unrealizedPnL),
         cache |-> view.cache]

\* ------------------------------------------------- serializers (pure)
\* a schema that checks the side only
CreateOrderRequestSchemaSideOnly(body) == body.side \in {"buy", "sell"}

\* CreateOrderRequestSchema.parse succeeds
CreateOrderRequestSchema(body) ==
    /\ body.price > 0
    /\ body.base_quantity > 0
    /\ body.side \in {"buy", "sell"}

\* UpdateUSDCBalanceRequestSchema.parse succeeds
UpdateUSDCBalanceRequestSchema(body) ==
    /\ body.amount > 0
    /\ body.action \in {"add", "withdraw"}

\* the validated request handed to the service
orderOf(body) == Order(body.base_symbol, body.side, body.base_quantity, body.price)

\* ------------------------------------------------------------- responses
NoResponse == [kind |-> "none", status |-> 0]
ValidationError(kind) ==
    [kind |-> kind, status |-> 400, error |-> "Validation error", served |-> FALSE]
ServiceError(kind, status, msg) ==
    [kind |-> kind, status |-> status, error |-> msg, served |-> TRUE]

\* ------------------------------------------------------------- the ledger
\* The lot queue of the specification, kept unit by unit: a buy appends one
\* entry per unit bought, a sell removes the oldest units.
Repeat(x, n) == [i \in 1..n |-> x]
Min(a, b) == IF a < b THEN a ELSE b

LedgerAccept(rq) ==
    LET q == lotQueue[rq.base]
        n == Min(rq.qty, Len(q))
    IN  IF rq.side = "buy"
        THEN /\ lotQueue' = [lotQueue EXCEPT ![rq.base] = q \o Repeat(rq.price, rq.qty)]
             /\ bought' = [bought EXCEPT ![rq.base] = @ + rq.qty]
             /\ UNCHANGED <<realized, sold>>
        ELSE /\ lotQueue' = [lotQueue EXCEPT ![rq.base] = SubSeq(q, n + 1, Len(q))]
             /\ realized' = realized + SumSeq([i \in 1..n |-> rq.price - q[i]])
             /\ sold' = [sold EXCEPT ![rq.base] = @ + rq.qty]
             /\ UNCHANGED bought

Quiescent == \A r \in Reqs : pc[r] = "idle"

\* ------------------------------------------------------------------ Init
Init ==
    /\ portfolio = [s \in Syms |-> NoRow]
    /\ trades = <<>>
    /\ pc = [r \in Reqs |-> "idle"]
    /\ req = [r \in Reqs |-> NoReq]
    /\ plan = [r \in Reqs |-> NoPlan]
    /\ result = [r \in Reqs |-> "none"]
    /\ funded = 0
    /\ lotQueue = [s \in BaseSyms |-> <<>>]
    /\ realized = 0
    /\ bought = [s \in BaseSyms |-> 0]
    /\ sold = [s \in BaseSyms |-> 0]
    /\ tradeFx = <<>>
    /\ epochBase = [portfolio |-> [s \in Syms |-> NoRow], trades |-> <<>>]
    /\ epochReqs = <<>>
    /\ priceCache = [s \in Syms |-> NoCache]
    /\ response = NoResponse

\* ------------------------------------------ requests handled one at a time
\* tradeService.createOrder(request), no other request running
CreateOrderCall(rq) ==
    /\ Quiescent
    /\ LET out == createOrder(portfolio, trades, rq)
       IN  /\ portfolio' = out.portfolio
           /\ trades' = out.trades
           /\ result' = [result EXCEPT ![1] = out.result]
           /\ tradeFx' = IF Len(out.trades) > Len(trades)
                         THEN Append(tradeFx, [pos |-> out.pos, usdc |-> out.usdc,
                                               open |-> FALSE])
                         ELSE tradeFx
           /\ IF out.result = "ok" THEN LedgerAccept(rq) ELSE UNCHANGED ledgerVars
    /\ UNCHANGED <<reqVars, funded, epochVars>>

\* portfolioService.updateUSDCBalanceDirect(...), no other request running
UpdateUSDCBalanceCall(amount, action) ==
    /\ Quiescent
    /\ funded' = funded + 1
    /\ LET out == updateUSDCBalanceDirect(portfolio, amount, action)
       IN  /\ portfolio' = out.portfolio
           /\ result' = [result EXCEPT ![1] = out.result]
    /\ UNCHANGED <<trades, reqVars, ledgerVars, tradeFx, epochVars>>

\* POST /create_order with a well-formed body
CreateOrder(rq) ==
    /\ Len(trades) < MaxTrades
    /\ CreateOrderCall(rq)
    /\ UNCHANGED apiVars

\* POST /update_usdc_balance with a well-formed body
UpdateUSDCBalance(amount, action) ==
    /\ funded < MaxFunds
    /\ UpdateUSDCBalanceCall(amount, action)
    /\ UNCHANGED apiVars

Orders == {Order(b, sd, q, p) : b \in BaseSyms, sd \in Sides, q \in Qtys, p \in Prices}

Next ==
    \/ \E rq \in Orders : CreateOrder(rq)
    \/ \E amount \in Amounts, action \in {"add", "withdraw"} :
           UpdateUSDCBalance(amount, action)

Spec == Init /\ [][Next]_vars

\* ------------------------------------------------- the HTTP controllers
OrderBodies ==
    [base_symbol : BaseSyms, side : RawSides, base_quantity : RawQtys, price : RawPrices]
FundsBodies == [amount : RawAmounts, action : {"add", "withdraw"}]

\* controllers/createOrder after the body was parsed: call the service, answer
CreateOrderHandled(rq) ==
    /\ CreateOrderCall(rq)
    /\ response' = IF result'[1] = "ok"
                   THEN [kind |-> "order", status |-> 201, error |-> "", served |-> TRUE]
                   ELSE ServiceError("order", 400, result'[1])
    /\ UNCHANGED priceCache

\* controllers/updateUSDCBalance after the body was parsed
UpdateUSDCBalanceHandled(amount, action) ==
    /\ UpdateUSDCBalanceCall(amount, action)
    /\ response' =
           IF result'[1] = "ok"
           THEN [kind |-> "funds", status |-> 200, error |-> "", served |-> TRUE,
                 usdc_balance |-> updateUSDCBalanceDirect(portfolio, amount, action).balance]
           ELSE ServiceError("funds", 400, result'[1])
    /\ UNCHANGED priceCache

\* controllers/createOrder: parse the body, call the service, answer
PostCreateOrder(body) ==
    IF CreateOrderRequestSchema(body)
    THEN /\ Len(trades) < MaxApiTrades
         /\ CreateOrderHandled(orderOf(body))
    ELSE /\ response' = ValidationError("order")
         /\ UNCHANGED <<dbVars, reqVars, result, funded, ledgerVars, tradeFx, epochVars,
                        priceCache>>

\* controllers/updateUSDCBalance: parse the body, call the service, answer
PostUpdateUSDCBalance(body) ==
    IF UpdateUSDCBalanceRequestSchema(body)
    THEN /\ funded < MaxApiFunds
         /\ UpdateUSDCBalanceHandled(body.amount, body.action)
    ELSE /\ response' = ValidationError("funds")
         /\ UNCHANGED <<dbVars, reqVars, result, funded, ledgerVars, tradeFx, epochVars,
                        priceCache>>

NextApi ==
    \/ \E body \in OrderBodies : PostCreateOrder(body)
    \/ \E body \in FundsBodies : PostUpdateUSDCBalance(body)

SpecApi == Init /\ [][NextApi]_vars

\* ------------------------------------------------- the read-only endpoints
\* what the remote lookup of each symbol with a feed id would do
Markets == [PRICE_FEED_IDS -> Lookups]

\* the symbols a read of the portfolio fetches from the remote service: the
\* holdings with a feed id and no fresh cached price; one outcome per fetch
fetchedSyms(pf, cache) ==
    {s \in holdingSyms(pf) \cap PRICE_FEED_IDS : ~(cache[s].present /\ cache[s].fresh)}
Fetches(pf, cache) == [fetchedSyms(pf, cache) -> Lookups]

\* controllers/getPortfolio.  The body of the answer is the value of
\* getPortfolio; the state keeps the status line and the price cache.
GetPortfolio(market) ==
    /\ Quiescent
    /\ LET out == getPortfolio(portfolio, priceCache, market)
       IN  /\ priceCache' = out.cache
           /\ response' =
                  IF out.threw
                  THEN ServiceError("portfolio", 500, "Failed to fetch portfolio")
                  ELSE [kind |-> "portfolio", status |-> 200, error |-> "", served |-> TRUE]
    /\ UNCHANGED <<dbVars, reqVars, result, funded, ledgerVars, tradeFx, epochVars>>

\* a getPnL that books every holding as closed: it deletes the position rows
GetPnLClosingPositions(market) ==
    /\ Quiescent
    /\ LET out == getPnL(portfolio, trades, priceCache, market)
       IN  /\ priceCache' = out.cache
           /\ response' =
                  IF out.threw
                  THEN ServiceError("pnl", 500, "Failed to calculate PnL")
                  ELSE [kind |-> "pnl", status |-> 200, error |-> "", served |-> TRUE]
    /\ portfolio' = [s \in Syms |-> IF s \in BaseSyms THEN NoRow ELSE portfolio[s]]
    /\ UNCHANGED <<trades, reqVars, result, funded, ledgerVars, tradeFx, epochVars>>


\* controllers/getPnL.  The body of the answer is the value of getPnL.
GetPnL(market) ==
    /\ Quiescent
    /\ LET out == getPnL(portfolio, trades, priceCache, market)
       IN  /\ priceCache' = out.cache
           /\ response' =
                  IF out.threw
                  THEN ServiceError("pnl", 500, "Failed to calculate PnL")
                  ELSE [kind |-> "pnl", status |-> 200, error |-> "", served |-> TRUE]
    /\ UNCHANGED <<dbVars, reqVars, result, funded, ledgerVars, tradeFx, epochVars>>

\* more than cacheTTL passes: every cached price is stale
CacheExpire ==
    /\ \E s \in Syms : priceCache[s].fresh
    /\ priceCache' = [s \in Syms |-> [priceCache[s] EXCEPT !.fresh = FALSE]]
    /\ UNCHANGED <<dbVars, reqVars, result, funded, ledgerVars, tradeFx, epochVars, response>>

\* the orders of this specification: buys of any quantity, sells of one unit
PnLOrders == {rq \in Orders : rq.qty = 1 \/ rq.side = "buy"}

NextPnL ==
    \/ \E rq \in PnLOrders : Len(trades) < MaxPnLTrades /\ CreateOrderHandled(rq)
    \/ \E amount \in Amounts, action \in {"add", "withdraw"} :
           funded < MaxPnLFunds /\ UpdateUSDCBalanceHandled(amount, action)
    \/ \E market \in Fetches(portfolio, priceCache) : GetPortfolio(market)
    \/ \E market \in Fetches(portfolio, priceCache) : GetPnL(market)
    \/ CacheExpire

SpecPnL == Init /\ [][NextPnL]_vars

\* --------------------------------------- requests interleaved at statements
\* A handler gives up control at every `await db.query`, so the statements of
\* two requests interleave; between two statements of one handler any number
\* of statements of the other may run.
Finish(r, res) ==
    /\ pc' = [pc EXCEPT ![r] = "idle"]
    /\ req' = [req EXCEPT ![r] = NoReq]
    /\ plan' = [plan EXCEPT ![r] = NoPlan]
    /\ result' = [result EXCEPT ![r] = res]
    /\ tradeFx' = IF req[r].kind = "order" /\ req[r].tradeId > 0
                  THEN [tradeFx EXCEPT ![req[r].tradeId].open = FALSE]
                  ELSE tradeFx

Goto(r, label, p) ==
    /\ pc' = [pc EXCEPT ![r] = label]
    /\ plan' = [plan EXCEPT ![r] = p]
    /\ UNCHANGED <<req, result>>

Requests == Orders \cup {Funds(a, act) : a \in Amounts, act \in {"add", "withdraw"}}

firstStatement(rq) == IF rq.kind = "order" THEN "validate" ELSE "udSelect"

\* Two requests arrive while no other is running.  createOrder starts with the
\* two asset lookups, the update_usdc_balance handler with the USDC lookup.
StartPair(rq1, rq2) ==
    /\ Quiescent
    /\ epochReqs = <<>>
    /\ pc' = [r \in Reqs |-> firstStatement(IF r = 1 THEN rq1 ELSE rq2)]
    /\ req' = [r \in Reqs |-> IF r = 1 THEN rq1 ELSE rq2]
    /\ result' = [r \in Reqs |-> "pending"]
    /\ epochBase' = [portfolio |-> portfolio, trades |-> trades]
    /\ epochReqs' = <<rq1, rq2>>
    /\ UNCHANGED <<dbVars, plan, funded, ledgerVars, tradeFx, apiVars>>

\* createOrder: getAssetBalance and the balance check
Validate(r) ==
    /\ pc[r] = "validate"
    /\ LET v == validateBalances(portfolio, req[r])
       IN  IF v = "ok"
           THEN Goto(r, "insert", NoPlan) /\ UNCHANGED tradeFx
           ELSE Finish(r, v)
    /\ UNCHANGED <<dbVars, funded, ledgerVars, epochVars, apiVars>>

\* createOrder: INSERT INTO trades
InsertTrade(r) ==
    /\ pc[r] = "insert"
    /\ trades' = insertTrade(trades, req[r])
    /\ tradeFx' = Append(tradeFx, [pos |-> FALSE, usdc |-> FALSE, open |-> TRUE])
    /\ req' = [req EXCEPT ![r].tradeId = Len(trades) + 1]
    /\ pc' = [pc EXCEPT ![r] = "upSelect"]
    /\ UNCHANGED <<portfolio, plan, result, funded, ledgerVars, epochVars, apiVars>>

\* updatePortfolio: SELECT the position row and choose the branch
UpSelect(r) ==
    /\ pc[r] = "upSelect"
    /\ LET p == updatePortfolioPlan(portfolio[req[r].base], req[r])
       IN  IF p.op = "throw"
           THEN Finish(r, p.msg)
           ELSE /\ Goto(r, IF p.op = "recalc" THEN "upRecalc" ELSE "upWrite", p)
                /\ UNCHANGED tradeFx
    /\ UNCHANGED <<dbVars, funded, ledgerVars, epochVars, apiVars>>

\* recalculateAverageCostFIFO: SELECT the trades of the asset and replay them
UpRecalc(r) ==
    /\ pc[r] = "upRecalc"
    /\ Goto(r, "upWrite", sellUpdatePlan(plan[r].quantity, trades, req[r].base))
    /\ UNCHANGED <<dbVars, funded, ledgerVars, tradeFx, epochVars, apiVars>>

\* updatePortfolio: the INSERT, UPDATE or DELETE of the position row
UpWrite(r) ==
    /\ pc[r] = "upWrite"
    /\ IF writeFails(portfolio, req[r].base, plan[r])
       THEN Finish(r, "duplicate key") /\ UNCHANGED portfolio
       ELSE /\ portfolio' = applyWrite(portfolio, req[r].base, plan[r])
            /\ tradeFx' = [tradeFx EXCEPT ![req[r].tradeId].pos = TRUE]
            /\ Goto(r, "usSelect", NoPlan)
    /\ UNCHANGED <<trades, funded, ledgerVars, epochVars, apiVars>>

\* updateUSDCBalance: SELECT the USDC row and choose the branch
UsSelect(r) ==
    /\ pc[r] = "usSelect"
    /\ LET p == updateUSDCBalancePlan(portfolio[QuoteSym], quoteQuantityOf(req[r]),
                                      req[r].side)
       IN  IF p.op = "throw"
           THEN Finish(r, p.msg)
           ELSE Goto(r, "usWrite", p) /\ UNCHANGED tradeFx
    /\ UNCHANGED <<dbVars, funded, ledgerVars, epochVars, apiVars>>

\* updateUSDCBalance: the INSERT, UPDATE or DELETE of the USDC row
UsWrite(r) ==
    /\ pc[r] = "usWrite"
    /\ IF writeFails(portfolio, QuoteSym, plan[r])
       THEN Finish(r, "duplicate key") /\ UNCHANGED portfolio
       ELSE /\ portfolio' = applyWrite(portfolio, QuoteSym, plan[r])
            /\ tradeFx' = [tradeFx EXCEPT ![req[r].tradeId].usdc = TRUE]
            /\ Goto(r, "getTrade", NoPlan)
    /\ UNCHANGED <<trades, funded, ledgerVars, epochVars, apiVars>>

\* createOrder: getTradeById finds the inserted row; the order is accepted
GetTrade(r) ==
    /\ pc[r] = "getTrade"
    /\ Finish(r, "ok")
    /\ LedgerAccept(req[r])
    /\ UNCHANGED <<dbVars, funded, epochVars, apiVars>>

\* updateUSDCBalanceDirect: SELECT the USDC row and choose the branch
UdSelect(r) ==
    /\ pc[r] = "udSelect"
    /\ LET p == updateUSDCBalanceDirectPlan(portfolio[QuoteSym], req[r].amount,
                                            req[r].action)
       IN  IF p.op = "throw"
           THEN Finish(r, p.msg)
           ELSE Goto(r, "udWrite", p) /\ UNCHANGED tradeFx
    /\ UNCHANGED <<dbVars, funded, ledgerVars, epochVars, apiVars>>

\* updateUSDCBalanceDirect: the INSERT, UPDATE or DELETE, then the response
UdWrite(r) ==
    /\ pc[r] = "udWrite"
    /\ IF writeFails(portfolio, QuoteSym, plan[r])
       THEN Finish(r, "duplicate key") /\ UNCHANGED portfolio
       ELSE /\ portfolio' = applyWrite(portfolio, QuoteSym, plan[r])
            /\ Finish(r, "ok")
    /\ UNCHANGED <<trades, funded, ledgerVars, epochVars, apiVars>>

NextConc ==
    \/ \E rq \in Orders :
           epochReqs = <<>> /\ Len(trades) < MaxConcTrades /\ CreateOrder(rq)
    \/ \E amount \in Amounts, action \in {"add", "withdraw"} :
           epochReqs = <<>> /\ funded < MaxConcFunds /\ UpdateUSDCBalance(amount, action)
    \/ \E rq1, rq2 \in Requests : StartPair(rq1, rq2)
    \/ \E r \in Reqs :
        \/ Validate(r)
        \/ InsertTrade(r)
        \/ UpSelect(r)
        \/ UpRecalc(r)
        \/ UpWrite(r)
        \/ UsSelect(r)
        \/ UsWrite(r)
        \/ GetTrade(r)
        \/ UdSelect(r)
        \/ UdWrite(r)

SpecConc == Init /\ [][NextConc]_vars

\* ---------------------------------------------- the clock of the database
\* created_at is CURRENT_TIMESTAMP read at the INSERT.  The trades table has
\* no sequence column and the id is a random UUID, so nothing makes the
\* reading of one INSERT differ from the reading of the one before it.
ClockReadings(tr) ==
    IF tr = <<>> THEN {1}
    ELSE {tr[Len(tr)].created_at, tr[Len(tr)].created_at + 1}

\* INSERT INTO trades when the clock reads `now`; the id field records the
\* order in which createOrder applied the rows
insertTradeAt(tr, rq, now) == Append(tr, TradeRow(Len(tr) + 1, rq, now))

\* what ORDER BY created_at ASC may return: the rows in nondecreasing
\* created_at, rows of equal created_at in any order
RECURSIVE OrderingsByCreatedAt(_)
OrderingsByCreatedAt(rows) ==
    IF rows = <<>> THEN {<<>>}
    ELSE UNION {
           {<<rows[i]>> \o rest :
               rest \in OrderingsByCreatedAt(
                   [k \in 1..(Len(rows) - 1) |-> IF k < i THEN rows[k] ELSE rows[k + 1]])}
           : i \in {j \in 1..Len(rows) :
                       \A k \in 1..Len(rows) : rows[j].created_at <= rows[k].created_at}}

\* the results the query of recalculateAverageCostFIFO may return
tradesOfAssetOrderings(tr, base) ==
    OrderingsByCreatedAt(SelectSeq(tr, LAMBDA t : t.base = base /\ t.status = "EXECUTED"))

\* the results the query of calculateRealizedPnL may return
executedTradesOrderings(tr) ==
    OrderingsByCreatedAt(SelectSeq(tr, LAMBDA t : t.status = "EXECUTED"))

\* recalculateAverageCostFIFO on the rows its query returned
recalculateAverageCostFIFOOf(rows) ==
    LET positionQueue == replayPositionQueue(<<>>, rows)
        totalCost == totalCostOf(positionQueue)
        totalQuantity == totalQuantityOf(positionQueue)
    IN  IF totalQuantity > 0 THEN Frac(totalCost, totalQuantity) ELSE <<0, 1>>

\* the test in front of console.warn('Quantity mismatch ...')
quantityMismatch(rows, expectedRemainingQuantity) ==
    totalQuantityOf(replayPositionQueue(<<>>, rows)) # expectedRemainingQuantity

\* createOrder, no other request running, when the clock reads `now` at the
\* INSERT and the query of recalculateAverageCostFIFO returns `rows`
createOrderAt(pf, tr, rq, now, rows) ==
    LET v == validateBalances(pf, rq) IN
    IF v # "ok"
    THEN [portfolio |-> pf, trades |-> tr, result |-> v, pos |-> FALSE, usdc |-> FALSE]
    ELSE
    LET tr1 == insertTradeAt(tr, rq, now)
        p1 == updatePortfolioPlan(pf[rq.base], rq)
    IN  IF p1.op = "throw"
        THEN [portfolio |-> pf, trades |-> tr1, result |-> p1.msg,
              pos |-> FALSE, usdc |-> FALSE]
        ELSE
        LET w1 == IF p1.op = "recalc"
                  THEN Plan("update", p1.quantity, recalculateAverageCostFIFOOf(rows))
                  ELSE p1
            pf1 == applyWrite(pf, rq.base, w1)
            p2 == updateUSDCBalancePlan(pf1[QuoteSym], quoteQuantityOf(rq), rq.side)
        IN  IF p2.op = "throw"
            THEN [portfolio |-> pf1, trades |-> tr1, result |-> p2.msg,
                  pos |-> TRUE, usdc |-> FALSE]
            ELSE [portfolio |-> applyWrite(pf1, QuoteSym, p2), trades |-> tr1,
                  result |-> "ok", pos |-> TRUE, usdc |-> TRUE]

\* POST /create_order, no other request running
CreateOrderAt(rq, now, rows) ==
    /\ Quiescent
    /\ Len(trades) < MaxClockTrades
    /\ LET out == createOrderAt(portfolio, trades, rq, now, rows)
       IN  /\ portfolio' = out.portfolio
           /\ trades' = out.trades
           /\ result' = [result EXCEPT ![1] = out.result]
           /\ tradeFx' = IF Len(out.trades) > Len(trades)
                         THEN Append(tradeFx, [pos |-> out.pos, usdc |-> out.usdc,
                                               open |-> FALSE])
                         ELSE tradeFx
           /\ IF out.result = "ok" THEN LedgerAccept(rq) ELSE UNCHANGED ledgerVars
    /\ UNCHANGED <<reqVars, funded, epochVars, apiVars>>

NextClock ==
    \/ \E rq \in Orders : \E now \in ClockReadings(trades) :
           \E rows \in tradesOfAssetOrderings(insertTradeAt(trades, rq, now), rq.base) :
               CreateOrderAt(rq, now, rows)
    \/ \E amount \in Amounts, action \in {"add", "withdraw"} :
           /\ funded < MaxClockFunds
           /\ UpdateUSDCBalanceCall(amount, action)
           /\ UNCHANGED apiVars

SpecClock == Init /\ [][NextClock]_vars

\* ------------------------------------------ one user trading a single asset
\* the requests of Spec, with every order on the same (user, asset) position
LotOrders == {rq \in Orders : rq.base = "BTC"}

NextLots ==
    \/ \E rq \in LotOrders :
           /\ Len(trades) < MaxLotTrades
           /\ CreateOrderCall(rq)
           /\ UNCHANGED apiVars
    \/ \E amount \in Amounts, action \in {"add", "withdraw"} :
           /\ funded < MaxLotFunds
           /\ UpdateUSDCBalanceCall(amount, action)
           /\ UNCHANGED apiVars

SpecLots == Init /\ [][NextLots]_vars

\* ------------------------------------------------- deposits, withdrawals, orders
\* both funding calls and orders on every asset, one call after the other
MaxUsdcTrades == 2
MaxUsdcFunds == 2

NextUsdc ==
    \/ \E rq \in Orders :
           /\ Len(trades) < MaxUsdcTrades
           /\ CreateOrderCall(rq)
           /\ UNCHANGED apiVars
    \/ \E amount \in Amounts, action \in {"add", "withdraw"} :
           /\ funded < MaxUsdcFunds
           /\ UpdateUSDCBalanceCall(amount, action)
           /\ UNCHANGED apiVars

SpecUsdc == Init /\ [][NextUsdc]_vars


\* ------------------------------------------- getPnL next to a createOrder
\* getPnL awaits calculateRealizedPnL (one query on trades) and then
\* calculateUnrealizedPnL (one query on portfolio, then the prices); the
\* statements of a createOrder of the same user may run before, between and
\* after the two.
MaxSnapTrades == 2
MaxSnapFunds == 1

PnLReq == [kind |-> "pnl"]

\* a createOrder (request 1) and a getPnL (request 2) arrive together
StartOrderAndPnL(rq) ==
    /\ Quiescent
    /\ epochReqs = <<>>
    /\ pc' = [r \in Reqs |-> IF r = 1 THEN "validate" ELSE "pnlRealized"]
    /\ req' = [r \in Reqs |-> IF r = 1 THEN rq ELSE PnLReq]
    /\ result' = [r \in Reqs |-> "pending"]
    /\ epochBase' = [portfolio |-> portfolio, trades |-> trades]
    /\ epochReqs' = <<rq, PnLReq>>
    /\ UNCHANGED <<dbVars, plan, funded, ledgerVars, tradeFx, apiVars>>

\* getPnL: await calculateRealizedPnL(userId)
PnLRealized(r) ==
    /\ pc[r] = "pnlRealized"
    /\ Goto(r, "pnlUnrealized",
            [op |-> "pnl", realizedPnL |-> calculateRealizedPnL(trades)])
    /\ UNCHANGED <<dbVars, funded, ledgerVars, tradeFx, epochVars, apiVars>>

\* getPnL: await calculateUnrealizedPnL(userId), the sum and the answer
PnLUnrealized(r, market) ==
    /\ pc[r] = "pnlUnrealized"
    /\ LET view == getPortfolio(portfolio, priceCache, market)
           unrealizedPnL == calculateUnrealizedPnL(view.holdings)
       IN  /\ priceCache' = view.cache
           /\ response' =
                  IF view.threw
                  THEN ServiceError("pnl", 500, "Failed to calculate PnL")
                  ELSE [kind |-> "pnl", status |-> 200, error |-> "", served |-> TRUE,
                        realized_pnl |-> plan[r].realizedPnL,
                        unrealized_pnl |-> unrealizedPnL,
                        total_pnl |-> totalPnLOf(plan[r].realizedPnL, unrealizedPnL)]
    /\ Finish(r, "ok")
    /\ UNCHANGED <<dbVars, funded, ledgerVars, epochVars>>

NextSnap ==
    \/ \E rq \in Orders :
           epochReqs = <<>> /\ Len(trades) < MaxSnapTrades /\ CreateOrder(rq)
    \/ \E amount \in Amounts, action \in {"add", "withdraw"} :
           epochReqs = <<>> /\ funded < MaxSnapFunds /\ UpdateUSDCBalance(amount, action)
    \/ \E rq \in Orders : StartOrderAndPnL(rq)
    \/ Validate(1)
    \/ InsertTrade(1)
    \/ UpSelect(1)
    \/ UpRecalc(1)
    \/ UpWrite(1)
    \/ UsSelect(1)
    \/ UsWrite(1)
    \/ GetTrade(1)
    \/ PnLRealized(2)
    \/ \E market \in Markets : PnLUnrealized(2, market)

SpecSnap == Init /\ [][NextSnap]_vars


\* ------------------------------------------------------ getPrice over time
\* Time passes in steps of a third of cacheTTL; an entry is followed until it
\* is MaxTicks steps old.
MaxTicks == 4
TickMs == cacheTTL \div 3

\* what the remote service may answer: the lookups above and a second quote
TimedLookups == Lookups \cup {[kind |-> "quote", price |-> 1200, expo |-> -1]}

\* pythClient.getPrice(symbol), the remote service answering `lookup`
GetPriceCall(symbol, lookup) ==
    LET cached == cachedView(priceCache[symbol])
        out == getPrice(cached, symbol, [s \in PRICE_FEED_IDS |-> lookup])
    IN  /\ priceCache' = [priceCache EXCEPT ![symbol] =
                              IF out.cached # cached
                              THEN StoredAt(out.cached.price, 0) ELSE @]
        /\ response' = [kind |-> "price", status |-> 200, symbol |-> symbol,
                        price |-> out.price,
                        contacted |-> contactsRemote(cached, symbol)]
        /\ UNCHANGED <<dbVars, reqVars, result, funded, ledgerVars, tradeFx, epochVars>>

\* TickMs milliseconds pass
Tick ==
    /\ \E s \in Syms : priceCache[s].present
    /\ \A s \in Syms : priceCache[s].present => priceCache[s].age < MaxTicks * TickMs
    /\ priceCache' = [s \in Syms |->
                         IF priceCache[s].present
                         THEN [priceCache[s] EXCEPT !.age = @ + TickMs]
                         ELSE priceCache[s]]
    /\ UNCHANGED <<dbVars, reqVars, result, funded, ledgerVars, tradeFx, epochVars, response>>

NextPyth ==
    \/ \E symbol \in BaseSyms, lookup \in TimedLookups : GetPriceCall(symbol, lookup)
    \/ Tick

SpecPyth == Init /\ [][NextPyth]_vars


\* ------------------------------------------------- server start: the database
\* connectWithRetry(maxRetries = 5, delay = 2000), called once from the
\* app.listen callback.  Request 1 runs it; plan[1] holds its locals, the
\* outcome of every attempt made and every delay handed to setTimeout.
DefaultMaxRetries == 5
DefaultDelay == 2000

\* what db.connect() and db.query('SELECT NOW()') may reject with
ConnectErrors == {"connect ECONNREFUSED", "password authentication failed"}
QueryErrors == {"Connection terminated unexpectedly"}

StartupReq == [kind |-> "startup"]

\* a backoff that does not grow
nextDelayFixed(delay) == delay

\* delay *= 2
nextDelay(delay) == delay * 2

\* i === maxRetries - 1
isLastAttempt(i, maxRetries) == i = maxRetries - 1

\* app.listen(PORT, async () => { ... await connectWithRetry(); })
Listen ==
    /\ Quiescent
    /\ \A r \in Reqs : result[r] = "none"
    /\ pc' = [pc EXCEPT ![1] = "dbConnect"]
    /\ req' = [req EXCEPT ![1] = StartupReq]
    /\ plan' = [plan EXCEPT ![1] =
                   [op |-> "connectWithRetry", i |-> 0, delay |-> DefaultDelay,
                    maxRetries |-> DefaultMaxRetries, attempts |-> <<>>, waited |-> <<>>]]
    /\ result' = [result EXCEPT ![1] = "pending"]
    /\ UNCHANGED <<dbVars, funded, ledgerVars, tradeFx, epochVars, apiVars>>

\* the catch block: rethrow on the last attempt, else schedule the timer
CatchConnectError(error) ==
    LET l == plan[1]
    IN  IF isLastAttempt(l.i, l.maxRetries)
        THEN /\ pc' = [pc EXCEPT ![1] = "idle"]
             /\ plan' = [plan EXCEPT ![1].attempts = Append(@, error)]
             /\ result' = [result EXCEPT ![1] = error]
        ELSE /\ pc' = [pc EXCEPT ![1] = "backoff"]
             /\ plan' = [plan EXCEPT ![1].attempts = Append(@, error),
                                     ![1].waited = Append(@, l.delay)]
             /\ UNCHANGED result

\* await db.connect() settles
DbConnect(outcome) ==
    /\ pc[1] = "dbConnect"
    /\ IF outcome = "ok"
       THEN /\ pc' = [pc EXCEPT ![1] = "dbQuery"]
            /\ UNCHANGED <<plan, result>>
       ELSE CatchConnectError(outcome)
    /\ UNCHANGED <<dbVars, req, funded, ledgerVars, tradeFx, epochVars, apiVars>>

\* await db.query('SELECT NOW()') settles; on success connectWithRetry returns
DbQuery(outcome) ==
    /\ pc[1] = "dbQuery"
    /\ IF outcome = "ok"
       THEN /\ pc' = [pc EXCEPT ![1] = "idle"]
            /\ plan' = [plan EXCEPT ![1].attempts = Append(@, "ok")]
            /\ result' = [result EXCEPT ![1] = "ok"]
       ELSE CatchConnectError(outcome)
    /\ UNCHANGED <<dbVars, req, funded, ledgerVars, tradeFx, epochVars, apiVars>>

\* the timer fires: delay *= 2, i++, and the loop test i < maxRetries
BackoffElapsed ==
    /\ pc[1] = "backoff"
    /\ LET l == plan[1]
       IN  /\ plan' = [plan EXCEPT ![1].delay = nextDelay(l.delay), ![1].i = l.i + 1]
           /\ IF l.i + 1 < l.maxRetries
              THEN /\ pc' = [pc EXCEPT ![1] = "dbConnect"]
                   /\ UNCHANGED result
              ELSE /\ pc' = [pc EXCEPT ![1] = "idle"]
                   /\ result' = [result EXCEPT ![1] = "returned"]
    /\ UNCHANGED <<dbVars, req, funded, ledgerVars, tradeFx, epochVars, apiVars>>

NextRetry ==
    \/ Listen
    \/ \E outcome \in {"ok"} \cup ConnectErrors : DbConnect(outcome)
    \/ \E outcome \in {"ok"} \cup QueryErrors : DbQuery(outcome)
    \/ BackoffElapsed

SpecRetry == Init /\ [][NextRetry]_vars

\* the callback of app.listen is called, every awaited database call settles
\* and every timer fires
SpecRetryFair ==
    /\ SpecRetry
    /\ WF_vars(Listen)
    /\ WF_vars(\E outcome \in {"ok"} \cup ConnectErrors : DbConnect(outcome))
    /\ WF_vars(\E outcome \in {"ok"} \cup QueryErrors : DbQuery(outcome))
    /\ WF_vars(BackoffElapsed)


\* --------------------------------------------- createOrder: the asset lookups
\* The assets table as seeded (the symbols the model follows), and requests
\* that name symbols outside it.  The service takes any string for either
\* symbol; only the controller's schema pins quote_symbol to USDC.
MaxAssetTrades == 2
MaxAssetFunds == 1

assetsTable == Syms

UnknownBase == "DOGE"
UnknownQuote == "EURC"

ServiceRequests ==
    [base_symbol : BaseSyms \cup {UnknownBase}, quote_symbol : {QuoteSym, UnknownQuote},
     side : Sides, base_quantity : Qtys, price : Prices]

\* SELECT id FROM assets WHERE symbol = $1
assetFound(symbol) == symbol \in assetsTable

\* lookups that test the base symbol only
assetLookupsBaseOnly(request) ==
    IF ~assetFound(request.base_symbol) THEN "Base asset not found" ELSE "ok"

\* the two lookups at the head of createOrder and the two tests that follow
assetLookups(request) ==
    IF ~assetFound(request.base_symbol) THEN "Base asset not found"
    ELSE IF ~assetFound(request.quote_symbol) THEN "Quote asset not found"
    ELSE "ok"

\* tradeService.createOrder(request), no other request running
CreateOrderRequestCall(request) ==
    IF assetLookups(request) # "ok"
    THEN /\ Quiescent
         /\ result' = [result EXCEPT ![1] = assetLookups(request)]
         /\ UNCHANGED <<dbVars, reqVars, funded, ledgerVars, tradeFx, epochVars>>
    ELSE CreateOrderCall(orderOf(request))

NextAssets ==
    \/ \E request \in ServiceRequests :
           /\ Len(trades) < MaxAssetTrades
           /\ CreateOrderRequestCall(request)
           /\ UNCHANGED apiVars
    \/ \E amount \in Amounts, action \in {"add", "withdraw"} :
           /\ funded < MaxAssetFunds
           /\ UpdateUSDCBalanceCall(amount, action)
           /\ UNCHANGED apiVars

SpecAssets == Init /\ [][NextAssets]_vars


\* ------------------------------------------- the handlers and failed queries
\* Every handler runs inside try/catch; the catch tells a ZodError from any
\* other error.  Besides the errors the services throw, an awaited db.query
\* may reject.
ZodError == [name |-> "ZodError", message |-> "Validation error"]
DbError(message) == [name |-> "Error", message |-> message]

\* catch of createOrder and of updateUSDCBalance
postCatch(kind, error) ==
    IF error.name = "ZodError" THEN ValidationError(kind)
    ELSE ServiceError(kind, 400, error.message)

\* catch of getOrders, getPortfolio and getPnL
getCatch(kind, error) ==
    IF error.name = "ZodError" THEN ValidationError(kind)
    ELSE ServiceError(kind, 500, error.message)

GetKinds == {"orders", "portfolio", "pnl"}

\* POST /create_order, the first query of createOrder rejecting
PostCreateOrderDbError(body, message) ==
    /\ CreateOrderRequestSchema(body)
    /\ Quiescent
    /\ result' = [result EXCEPT ![1] = message]
    /\ response' = postCatch("order", DbError(message))
    /\ UNCHANGED <<dbVars, reqVars, funded, ledgerVars, tradeFx, epochVars, priceCache>>

\* POST /update_usdc_balance, the lookup of the USDC asset rejecting
PostUpdateUSDCBalanceDbError(body, message) ==
    /\ UpdateUSDCBalanceRequestSchema(body)
    /\ Quiescent
    /\ result' = [result EXCEPT ![1] = message]
    /\ response' = postCatch("funds", DbError(message))
    /\ UNCHANGED <<dbVars, reqVars, funded, ledgerVars, tradeFx, epochVars, priceCache>>

\* POST /get_orders, /get_portfolio or /get_pnl, the query rejecting
GetDbError(kind, message) ==
    /\ Quiescent
    /\ result' = [result EXCEPT ![1] = message]
    /\ response' = getCatch(kind, DbError(message))
    /\ UNCHANGED <<dbVars, reqVars, funded, ledgerVars, tradeFx, epochVars, priceCache>>

\* POST /get_orders, /get_portfolio or /get_pnl with a user_id that is no uuid
GetInvalid(kind) ==
    /\ Quiescent
    /\ response' = getCatch(kind, ZodError)
    /\ UNCHANGED <<dbVars, reqVars, result, funded, ledgerVars, tradeFx, epochVars,
                   priceCache>>

NextHttp ==
    \/ \E body \in OrderBodies : PostCreateOrder(body)
    \/ \E body \in FundsBodies : PostUpdateUSDCBalance(body)
    \/ \E body \in OrderBodies, message \in QueryErrors :
           PostCreateOrderDbError(body, message)
    \/ \E body \in FundsBodies, message \in QueryErrors :
           PostUpdateUSDCBalanceDbError(body, message)
    \/ \E kind \in GetKinds, message \in QueryErrors : GetDbError(kind, message)
    \/ \E kind \in GetKinds : GetInvalid(kind)

SpecHttp == Init /\ [][NextHttp]_vars


\* ================================================================ claims
Range(f) == {f[i] : i \in DOMAIN f}
LastTrade == trades[Len(trades)]
InsufficientBase == "Insufficient base balance (order)"

\* the position the specification derives from a lot queue
PositionOf(units) ==
    IF units = <<>> THEN NoRow ELSE Row(Len(units), Frac(SumSeq(units), Len(units)))

CrossLotExample ==
    LET pf0 == [s \in Syms |-> IF s = QuoteSym THEN Row(100000, <<1, 1>>) ELSE NoRow]
        o1 == createOrder(pf0, <<>>, Order("BTC", "buy", 1, 40000))
        o2 == createOrder(o1.portfolio, o1.trades, Order("BTC", "buy", 1, 42000))
        o3 == createOrder(o2.portfolio, o2.trades, Order("BTC", "sell", 1, 43000))
    IN  /\ o2.portfolio["BTC"] = Row(2, <<41000, 1>>)
        /\ o3.result = "ok"
        /\ o3.portfolio["BTC"] = Row(1, <<42000, 1>>)

\* the step is an accepted sell on b that leaves a position
AcceptedSellLeaving(b) ==
    /\ Len(trades') = Len(trades) + 1
    /\ trades'[Len(trades')].side = "sell"
    /\ trades'[Len(trades')].base = b
    /\ result'[1] = "ok"
    /\ portfolio'[b].present

Conservation ==
    /\ Quiescent =>
           \A b \in BaseSyms : getAssetBalance(portfolio, b) = bought[b] - sold[b]
    /\ \A s \in Syms : portfolio[s].quantity >= 0
    /\ \A b \in BaseSyms : sold[b] <= bought[b]

\* buys and a sell were accepted, a sell exceeding the position was rejected
ConservationWitness ==
    /\ result[1] = InsufficientBase
    /\ \E b \in BaseSyms :
          /\ sold[b] > 0
          /\ bought[b] - sold[b] > 0
          /\ portfolio[b].quantity = bought[b] - sold[b]

\* entry (or exit) price of every unit of the rows, in row order
RECURSIVE UnitPrices(_)
UnitPrices(rows) ==
    IF rows = <<>> THEN <<>>
    ELSE Repeat(Head(rows).price, Head(rows).qty) \o UnitPrices(Tail(rows))

\* the k-th unit sold of an asset is matched with the k-th unit bought
UnitMatchedPnL(tr, b) ==
    LET buys == UnitPrices(SelectSeq(tr, LAMBDA t : t.base = b /\ t.side = "buy"))
        sells == UnitPrices(SelectSeq(tr, LAMBDA t : t.base = b /\ t.side = "sell"))
    IN  SumSeq([k \in 1..Min(Len(sells), Len(buys)) |-> sells[k] - buys[k]])

RECURSIVE UnitMatchedPnLOver(_, _)
UnitMatchedPnLOver(S, tr) ==
    IF S = {} THEN 0
    ELSE LET b == CHOOSE x \in S : TRUE
         IN  UnitMatchedPnL(tr, b) + UnitMatchedPnLOver(S \ {b}, tr)

\* Buy(1 @ 100), Buy(1 @ 110), Sell(1 @ 120)
FifoExampleTrades ==
    <<TradeRow(1, Order("BTC", "buy", 1, 100), 1),
      TradeRow(2, Order("BTC", "buy", 1, 110), 2),
      TradeRow(3, Order("BTC", "sell", 1, 120), 3)>>

\* C4 (FIFO realized PnL): calculateRealizedPnL returns the sum over the sold
\* units of (sell price - entry price), the units being matched in the order
\* they were bought; 100/110/120 yields 20.
FifoRealizedPnL ==
    /\ calculateRealizedPnL(FifoExampleTrades) = 20
    /\ calculateRealizedPnL(trades) = UnitMatchedPnLOver(BaseSyms, trades)

\* two buys at different prices, then a sell of one unit: the older lot pays
FifoRealizedPnLWitness ==
    /\ Len(trades) >= 3
    /\ \A i \in 1..3 : trades[i].base = "BTC" /\ trades[i].qty = 1
    /\ <<trades[1].side, trades[2].side, trades[3].side>> = <<"buy", "buy", "sell">>
    /\ <<trades[1].price, trades[2].price, trades[3].price>> = <<100, 120, 120>>
    /\ Len(trades) = 3 => calculateRealizedPnL(trades) = 20

\* C5 (exhaustion rejection): a sell order for more than the quantity held is
\* rejected with the insufficient-balance error and leaves the position row,
\* the USDC row, the trade history and the realized PnL as they were.
ExhaustionRejection ==
    [][ \A rq \in Orders :
            (/\ rq.side = "sell"
             /\ rq.qty > getAssetBalance(portfolio, rq.base)
             /\ CreateOrder(rq))
            => /\ result'[1] = InsufficientBase
               /\ portfolio' = portfolio
               /\ trades' = trades
               /\ calculateRealizedPnL(trades') = calculateRealizedPnL(trades)
               /\ UNCHANGED ledgerVars ]_vars

\* Buy(1 @ 100) accepted, then a sell rejected: the position is still 1 @ 100
ExhaustionRejectionWitness ==
    /\ result[1] = InsufficientBase
    /\ Len(trades) = 1
    /\ portfolio["BTC"] = Row(1, <<100, 1>>)
    /\ calculateRealizedPnL(trades) = 0

\* the two overlapping requests are orders
PairOfOrders == Len(epochReqs) = 2 /\ \A i \in 1..2 : epochReqs[i].kind = "order"

\* units of the overlapping requests that were accepted
AcceptedQty == SumSeq([i \in 1..2 |-> IF result[i] = "ok" THEN epochReqs[i].qty ELSE 0])

\* C6 (no overselling): of two overlapping sell orders on the same asset, the
\* accepted ones together sell no more than the quantity held before them.
NoOverselling ==
    (/\ PairOfOrders
     /\ \A i \in 1..2 : epochReqs[i].side = "sell"
     /\ epochReqs[1].base = epochReqs[2].base)
    => AcceptedQty <= getAssetBalance(epochBase.portfolio, epochReqs[1].base)

\* what a trade row records of its order
TradeContent(t) == <<t.base, t.side, t.qty, t.price, t.status>>
Occurrences(seq, x) == Cardinality({i \in DOMAIN seq : TradeContent(seq[i]) = x})
SameTrades(s, t) ==
    /\ Len(s) = Len(t)
    /\ \A i \in DOMAIN s :
           Occurrences(s, TradeContent(s[i])) = Occurrences(t, TradeContent(s[i]))

\* the tables after running rq1 and then rq2, each with no other request
SerialOutcome(base, rq1, rq2) ==
    LET o1 == createOrder(base.portfolio, base.trades, rq1)
    IN  createOrder(o1.portfolio, o1.trades, rq2)

IsSerialOutcome(o) == o.portfolio = portfolio /\ SameTrades(o.trades, trades)

\* C7 (independent keys): once two overlapping orders on different base assets
\* have both ended, the positions, the USDC balance and the trade history are
\* those of running the two orders one after the other in some order.
DifferentKeysSerializable ==
    (/\ Quiescent
     /\ PairOfOrders
     /\ epochReqs[1].base # epochReqs[2].base)
    => \/ IsSerialOutcome(SerialOutcome(epochBase, epochReqs[1], epochReqs[2]))
       \/ IsSerialOutcome(SerialOutcome(epochBase, epochReqs[2], epochReqs[1]))

\* C8 (all or nothing): once the createOrder call that inserted a trade row
\* has ended, the position update and the USDC update of that row were applied.
CreateOrderAllOrNothing ==
    \A i \in DOMAIN trades :
        ~tradeFx[i].open => (tradeFx[i].pos /\ tradeFx[i].usdc)

\* C9 (realized PnL replay equivalence): the value calculateRealizedPnL
\* computes from the trade history equals the total accumulated sell by sell
\* from the units each accepted sell took out of the live lot queue.
RealizedPnLReplayEquivalence ==
    Quiescent => calculateRealizedPnL(trades) = realized

\* one buy of two units, then two accepted sells of one unit each at a gain
RealizedPnLReplayEquivalenceWitness ==
    /\ Len(trades) = 3
    /\ \A i \in 1..3 : trades[i].base = "ETH"
    /\ <<trades[1].side, trades[2].side, trades[3].side>> = <<"buy", "sell", "sell">>
    /\ <<trades[1].qty, trades[2].qty, trades[3].qty>> = <<2, 1, 1>>
    /\ <<trades[1].price, trades[2].price, trades[3].price>> = <<100, 120, 120>>
    /\ realized = 40

\* C10 (full liquidation): a sell of exactly the quantity held is accepted and
\* leaves no row for the asset; getAssetBalance then returns 0 and getPortfolio
\* does not list the asset.
FullLiquidation ==
    [][ \A rq \in Orders :
            (/\ rq.side = "sell"
             /\ rq.qty = getAssetBalance(portfolio, rq.base)
             /\ CreateOrder(rq))
            => /\ result'[1] = "ok"
               /\ portfolio'[rq.base] = NoRow
               /\ getAssetBalance(portfolio', rq.base) = 0
               /\ rq.base \notin holdingSyms(portfolio') ]_vars

\* a position was bought and then sold completely
FullLiquidationWitness ==
    /\ Len(trades) >= 2
    /\ LastTrade.side = "sell"
    /\ result[1] = "ok"
    /\ bought[LastTrade.base] = sold[LastTrade.base]
    /\ ~portfolio[LastTrade.base].present
    /\ realized # 0


\* the open lots of an asset as recalculateAverageCostFIFO rebuilds them
OpenLots(tr, b) == replayPositionQueue(<<>>, tradesOfAsset(tr, b))

\* the open lots of an asset as calculateRealizedPnL leaves them
PnLLots(tr, b) ==
    replayRealizedPnL([s \in BaseSyms |-> <<>>], 0, executedTrades(tr)).queues[b]

\* entry price of every unit of the lots, oldest first
RECURSIVE LotUnits(_)
LotUnits(lots) ==
    IF lots = <<>> THEN <<>>
    ELSE Repeat(Head(lots).price, Head(lots).quantity) \o LotUnits(Tail(lots))

\* Buy(2 @ 100), Sell(1 @ 120); and Buy(2 @ 100), Buy(1 @ 120), Sell(1 @ 130)
\* twice, where both sells match the first lot
PartialLotExample ==
    LET pf0 == [s \in Syms |-> IF s = QuoteSym THEN Row(1000, <<1, 1>>) ELSE NoRow]
        o1 == createOrder(pf0, <<>>, Order("BTC", "buy", 2, 100))
        o2 == createOrder(o1.portfolio, o1.trades, Order("BTC", "sell", 1, 120))
        b2 == createOrder(o1.portfolio, o1.trades, Order("BTC", "buy", 1, 120))
        s1 == createOrder(b2.portfolio, b2.trades, Order("BTC", "sell", 1, 130))
        s2 == createOrder(s1.portfolio, s1.trades, Order("BTC", "sell", 1, 130))
    IN  /\ o2.result = "ok"
        /\ o2.portfolio["BTC"] = Row(1, <<100, 1>>)
        /\ calculateRealizedPnL(o2.trades) = 20
        /\ calculateRealizedPnL(s1.trades) = 30
        /\ PnLLots(s1.trades, "BTC") = <<[quantity |-> 1, price |-> 100],
                                         [quantity |-> 1, price |-> 120]>>
        /\ calculateRealizedPnL(s2.trades) = 60
        /\ s2.portfolio["BTC"] = Row(1, <<120, 1>>)

\* C11 (partial lot consumption): an accepted sell smaller than the oldest
\* open lot shrinks that lot by the sold quantity, keeps its entry price and
\* leaves the later lots as they were, in both replays; realized PnL grows by
\* (sell price - entry price of that lot) x sold quantity; 2 @ 100 then a sell
\* of 1 @ 120 leaves 1 @ 100 with realized PnL 20.
PartialLotConsumption ==
    [][ /\ trades = <<>> => PartialLotExample
        /\ \A b \in BaseSyms :
            lotQueue[b] # <<>>
            => LET lots == OpenLots(trades, b)
               IN  \A rq \in Orders :
                   (/\ rq.base = b
                    /\ rq.side = "sell"
                    /\ lots # <<>>
                    /\ rq.qty < Head(lots).quantity
                    /\ CreateOrder(rq))
                   => LET left == OpenLots(trades', b)
                      IN  /\ result'[1] = "ok"
                          /\ Len(left) = Len(lots)
                          /\ Head(left).price = Head(lots).price
                          /\ Head(left).quantity = Head(lots).quantity - rq.qty
                          /\ Tail(left) = Tail(lots)
                          /\ PnLLots(trades', b) = left
                          /\ LotUnits(left) = lotQueue'[b]
                          /\ portfolio'[b] = PositionOf(LotUnits(left))
                          /\ calculateRealizedPnL(trades') - calculateRealizedPnL(trades)
                                 = (rq.price - Head(lots).price) * rq.qty ]_vars

\* Buy(2 @ 100) then Sell(1 @ 120), both accepted
PartialLotConsumptionWitness ==
    /\ Len(trades) = 2
    /\ TradeContent(trades[1]) = <<"BTC", "buy", 2, 100, "EXECUTED">>
    /\ TradeContent(trades[2]) = <<"BTC", "sell", 1, 120, "EXECUTED">>
    /\ result[1] = "ok"
    /\ portfolio["BTC"] = Row(1, <<100, 1>>)
    /\ realized = 20
    /\ OpenLots(trades, "BTC") = <<[quantity |-> 1, price |-> 100]>>

\* C12 (sell without a position): a sell of any quantity for an asset with no
\* position row, because nothing was bought or because the position was sold
\* completely, is rejected with the insufficient-balance error; it creates
\* no position row and no trade row. updatePortfolio itself throws on a sell
\* that finds no row, whatever the quantity.
SellWithoutPosition ==
    [][ /\ \A rq \in Orders :
            rq.side = "sell"
            => /\ updatePortfolioPlan(NoRow, rq) = Throw("Insufficient balance for sell order")
               /\ validateBalances([s \in Syms |-> NoRow], rq) = InsufficientBase
        /\ \A rq \in Orders :
            (/\ rq.side = "sell"
             /\ ~portfolio[rq.base].present
             /\ CreateOrder(rq))
            => /\ result'[1] = InsufficientBase
               /\ ~portfolio'[rq.base].present
               /\ portfolio' = portfolio
               /\ trades' = trades
               /\ UNCHANGED ledgerVars ]_vars

\* a position was bought, sold completely, and the next sell was rejected
SellWithoutPositionWitness ==
    /\ result[1] = InsufficientBase
    /\ Len(trades) = 2
    /\ trades[1].side = "buy" /\ trades[2].side = "sell"
    /\ trades[1].base = trades[2].base
    /\ bought[trades[1].base] = sold[trades[1].base]
    /\ ~portfolio[trades[1].base].present
    /\ \A b \in BaseSyms : ~portfolio[b].present

\* C13 (realized PnL moves only on sells): a step changes the value of
\* calculateRealizedPnL only when it is an accepted sell, so an accepted buy,
\* a deposit, a withdrawal, a read of the portfolio or of the PnL at any
\* market price and the expiry of cached prices leave it unchanged.  Where
\* the tables are about to change: appending a buy to the history leaves
\* calculateRealizedPnL as it was, getPnL reports the same realized_pnl
\* whatever the price lookups answer, and a history of buys only has realized PnL 0.
RealizedOnlyThroughSells ==
    [][ /\ calculateRealizedPnL(trades') # calculateRealizedPnL(trades)
            => /\ Len(trades') = Len(trades) + 1
               /\ trades'[Len(trades')].side = "sell"
               /\ result'[1] = "ok"
        /\ dbVars' # dbVars
            => /\ \A rq \in Orders :
                    rq.side = "buy"
                    => calculateRealizedPnL(insertTrade(trades, rq))
                           = calculateRealizedPnL(trades)
               /\ \A market \in Fetches(portfolio, priceCache) :
                    getPnL(portfolio, trades, priceCache, market).realized_pnl
                        = calculateRealizedPnL(trades)
               /\ (\A i \in 1..Len(trades) : trades[i].side = "buy")
                    => calculateRealizedPnL(trades) = 0 ]_vars

\* 2 BTC were bought at 100 out of a deposit of 300, 1 was sold at 120, and
\* the PnL was then read at a live quote: realized 20
RealizedOnlyThroughSellsWitness ==
    /\ Len(trades) = 2
    /\ trades[2].side = "sell"
    /\ calculateRealizedPnL(trades) = 20
    /\ funded = 1
    /\ getAssetBalance(portfolio, QuoteSym) = 220
    /\ response.kind = "pnl"
    /\ priceCache["BTC"] = Cached(110)

\* the unrealized PnL of a holding from the lots that are open: the market
\* value of the units held minus what was paid for them
LotsUnrealized(s, currentPrice) ==
    <<currentPrice * Len(lotQueue[s]) - SumSeq(lotQueue[s]), 1>>

RECURSIVE SumUnrealized(_, _)
SumUnrealized(S, view) ==
    IF S = {} THEN <<0, 1>>
    ELSE LET s == CHOOSE x \in S : TRUE
         IN  AddFrac(LotsUnrealized(s, view.holdings[s].current_price),
                     SumUnrealized(S \ {s}, view))

\* C14 (unrealized PnL): whatever the price lookups answer, every holding
\* returned by getPortfolio carries the stored quantity and average, the price
\* the price client returned, and unrealized_pnl = (current_price -
\* avg_buying_price) x quantity; calculateUnrealizedPnL is the sum of these
\* over the holdings and 0 when there are none.  A position of 1 at average
\* cost 92000 priced at 90000 has unrealized PnL -2000.
UnrealizedPnL ==
    /\ unrealizedPnlOf(Row(1, <<92000, 1>>), 90000) = <<0 - 2000, 1>>
    /\ \A market \in Fetches(portfolio, priceCache) :
        LET view == getPortfolio(portfolio, priceCache, market)
        IN  /\ DOMAIN view.holdings = {s \in BaseSyms : portfolio[s].present}
            /\ \A s \in DOMAIN view.holdings :
                LET h == view.holdings[s]
                IN  /\ h.quantity = portfolio[s].quantity
                    /\ h.avg_buying_price = portfolio[s].avg
                    /\ h.current_price = getPrice(priceCache[s], s, market).price
                    /\ h.unrealized_pnl[2] > 0
                    /\ h.unrealized_pnl[1] * h.avg_buying_price[2]
                           = (h.current_price * h.avg_buying_price[2] - h.avg_buying_price[1])
                             * h.quantity * h.unrealized_pnl[2]
                    /\ h.unrealized_pnl = LotsUnrealized(s, h.current_price)
            /\ calculateUnrealizedPnL(view.holdings)
                   = SumUnrealized(DOMAIN view.holdings, view)
            /\ DOMAIN view.holdings = {} => calculateUnrealizedPnL(view.holdings) = <<0, 1>>
            /\ getPnL(portfolio, trades, priceCache, market).unrealized_pnl
                   = calculateUnrealizedPnL(view.holdings)

\* the portfolio was read while 1 BTC bought at 120 is quoted at 110, and 1
\* ETH bought at 100 is quoted at 110: the parts are -10 and 10
UnrealizedPnLWitness ==
    /\ response.kind = "portfolio" /\ response.status = 200
    /\ portfolio["BTC"] = Row(1, <<120, 1>>)
    /\ portfolio["ETH"] = Row(1, <<100, 1>>)
    /\ priceCache["BTC"] = Cached(110)
    /\ priceCache["ETH"] = Cached(110)
    /\ LET view == getPortfolio(portfolio, priceCache, <<>>)
       IN  /\ view.holdings["BTC"].unrealized_pnl = <<0 - 10, 1>>
           /\ view.holdings["ETH"].unrealized_pnl = <<10, 1>>
           /\ calculateUnrealizedPnL(view.holdings) = <<0, 1>>

\* USDC rows a user can have, and none
UsdcRows == {NoRow} \cup {Row(a, <<1, 1>>) : a \in Amounts}

\* C15 (USDC is not revalued): whatever the price lookups answer, getPortfolio
\* does not list USDC among the holdings, asks no price for it and leaves its
\* cache entry alone, and reports its stored quantity as usdcBalance, 0 when
\* there is no USDC row; the holdings are the same whatever the USDC row is,
\* and the unrealized and total PnL are made of the base assets only.
UsdcNotRevalued ==
    \A market \in Fetches(portfolio, priceCache) :
        LET view == getPortfolio(portfolio, priceCache, market)
            pnl == getPnL(portfolio, trades, priceCache, market)
            u == SumUnrealized(BaseSyms \cap DOMAIN view.holdings, view)
        IN  /\ QuoteSym \notin DOMAIN view.holdings
            /\ QuoteSym \notin view.priced
            /\ view.cache[QuoteSym] = priceCache[QuoteSym]
            /\ view.usdcBalance = getAssetBalance(portfolio, QuoteSym)
            /\ ~portfolio[QuoteSym].present => view.usdcBalance = 0
            /\ pnl.unrealized_pnl = u
            /\ pnl.total_pnl[1] * u[2] = (realized * u[2] + u[1]) * pnl.total_pnl[2]
            /\ \A row \in UsdcRows :
                LET other == getPortfolio([portfolio EXCEPT ![QuoteSym] = row],
                                          priceCache, market)
                IN  /\ other.holdings = view.holdings
                    /\ other.usdcBalance = row.quantity
                    /\ other.cache = view.cache

\* the portfolio was read while the user holds 200 USDC and 1 BTC
UsdcNotRevaluedWitness ==
    /\ response.kind = "portfolio" /\ response.status = 200
    /\ portfolio[QuoteSym] = Row(200, <<1, 1>>)
    /\ portfolio["BTC"] = Row(1, <<100, 1>>)
    /\ priceCache["BTC"] = Cached(110)
    /\ LET view == getPortfolio(portfolio, priceCache, <<>>)
       IN  /\ view.usdcBalance = 200
           /\ DOMAIN view.holdings = {"BTC"}
           /\ calculateUnrealizedPnL(view.holdings) = <<10, 1>>

\* C16 (total PnL): whatever the price lookups answer, a read of the PnL
\* returns as realized_pnl the FIFO realized PnL of the whole trade history,
\* as unrealized_pnl the sum over the current holdings, and as total_pnl
\* their sum; the read computes them from the tables and writes neither
\* table.
TotalPnL ==
    [][ \A market \in Fetches(portfolio, priceCache) :
            GetPnL(market)
            => LET pnl == getPnL(portfolio, trades, priceCache, market)
                   view == getPortfolio(portfolio, priceCache, market)
                   u == SumUnrealized(DOMAIN view.holdings, view)
               IN  /\ pnl.realized_pnl = realized
                   /\ pnl.realized_pnl = calculateRealizedPnL(trades)
                   /\ pnl.unrealized_pnl = u
                   /\ pnl.total_pnl[2] > 0
                   /\ pnl.total_pnl[1] * u[2] = (realized * u[2] + u[1]) * pnl.total_pnl[2]
                   /\ UNCHANGED <<dbVars, ledgerVars, tradeFx, funded>> ]_vars

\* 2 BTC bought at 100, 1 sold at 120, the PnL read with BTC quoted at 110:
\* realized 20, unrealized 10, total 30
TotalPnLWitness ==
    /\ response.kind = "pnl" /\ response.status = 200
    /\ realized = 20
    /\ portfolio["BTC"] = Row(1, <<100, 1>>)
    /\ priceCache["BTC"] = Cached(110)
    /\ LET pnl == getPnL(portfolio, trades, priceCache, <<>>)
       IN  /\ pnl.realized_pnl = 20
           /\ pnl.unrealized_pnl = <<10, 1>>
           /\ pnl.total_pnl = <<30, 1>>

\* a lookup that ends without a price: fetch rejects, the status is not OK,
\* or the body has no parsed price
FailedLookups == {l \in Lookups : l.kind # "quote"}

\* C17 (price-feed failures are contained): getPrice returns a number for
\* every symbol and every outcome of the remote lookup; when the lookup ends
\* without a price, or the symbol has no feed id, and no fresh price is
\* cached, the number is the static fallback price of the symbol, 0 when it
\* has none.  So getPortfolio and getPnL never fail, and no read is answered
\* with status 500.
PriceFeedFailureContained ==
    /\ \A s \in Syms, market \in Markets :
        LET got == getPrice(priceCache[s], s, market)
        IN  /\ ~got.threw
            /\ got.price \in Nat
            /\ (~(priceCache[s].present /\ priceCache[s].fresh)
                 /\ (s \notin PRICE_FEED_IDS \/ market[s] \in FailedLookups))
                => /\ got.price = (IF s = "BTC" THEN 90000 ELSE IF s = "ETH" THEN 3000 ELSE 0)
                   /\ got.cached = priceCache[s]
    /\ \A market \in Fetches(portfolio, priceCache) :
        /\ ~getPortfolio(portfolio, priceCache, market).threw
        /\ ~getPnL(portfolio, trades, priceCache, market).threw
        /\ ~calculateUnrealizedPnL(
                getPortfolio(portfolio, priceCache, market).holdings)[2] = 0
    /\ response.status # 500

\* the portfolio was read while BTC is held and its lookup ended without a
\* price (nothing was cached): the answer is 200, priced at the fallback
PriceFeedFailureContainedWitness ==
    /\ response.kind = "portfolio" /\ response.status = 200
    /\ portfolio["BTC"].present
    /\ priceCache["BTC"] = NoCache
    /\ \A l \in FailedLookups :
        getPortfolio(portfolio, priceCache, [s \in PRICE_FEED_IDS |-> l])
            .holdings["BTC"].current_price = 90000

\* C18 (invalid orders are rejected before any service call): an order body
\* whose price or base_quantity is not positive, or whose side is neither buy
\* nor sell, is answered 400 'Validation error'; the service is not called,
\* so no trade row is inserted, no portfolio row changes and the outcome of
\* the last service call stays as it was.
InvalidOrderRejected ==
    [][ \A body \in OrderBodies :
            (/\ \/ body.price <= 0
                \/ body.base_quantity <= 0
                \/ body.side \notin {"buy", "sell"}
             /\ PostCreateOrder(body))
            => /\ response'.kind = "order"
               /\ response'.status = 400
               /\ response'.error = "Validation error"
               /\ ~response'.served
               /\ trades' = trades
               /\ portfolio' = portfolio
               /\ result' = result
               /\ UNCHANGED <<ledgerVars, tradeFx, funded, priceCache>> ]_vars

\* 1 BTC was bought at 100 out of a deposit of 300, and the next order was
\* answered with the validation error: one trade, 1 BTC, 200 USDC
InvalidOrderRejectedWitness ==
    /\ response = ValidationError("order")
    /\ Len(trades) = 1
    /\ result[1] = "ok"
    /\ portfolio["BTC"] = Row(1, <<100, 1>>)
    /\ portfolio[QuoteSym] = Row(200, <<1, 1>>)

InsufficientUsdc == "Insufficient USDC balance (order)"

\* the USDC balance of the user, 0 when there is no USDC row
UsdcHeld == IF portfolio[QuoteSym].present THEN portfolio[QuoteSym].quantity ELSE 0

\* C19 (buy above the USDC balance): a buy whose cost price x base_quantity
\* exceeds the USDC balance (0 without a USDC row) is rejected with the
\* insufficient-USDC error; no trade row is inserted and the base position
\* and the USDC row stay as they were.  A buy whose cost equals the balance is
\* accepted: the trade is recorded, the position grows and no USDC is left.
BuyAboveUsdcBalance ==
    [][ \A rq \in Orders :
            (rq.side = "buy" /\ CreateOrder(rq))
            => /\ rq.price * rq.qty > UsdcHeld
                    => /\ result'[1] = InsufficientUsdc
                       /\ trades' = trades
                       /\ portfolio'[rq.base] = portfolio[rq.base]
                       /\ portfolio'[QuoteSym] = portfolio[QuoteSym]
                       /\ portfolio' = portfolio
                       /\ UNCHANGED ledgerVars
               /\ rq.price * rq.qty = UsdcHeld
                    => /\ result'[1] = "ok"
                       /\ Len(trades') = Len(trades) + 1
                       /\ TradeContent(trades'[Len(trades')])
                              = <<rq.base, "buy", rq.qty, rq.price, "EXECUTED">>
                       /\ portfolio'[rq.base].present
                       /\ portfolio'[rq.base].quantity
                              = getAssetBalance(portfolio, rq.base) + rq.qty
                       /\ getAssetBalance(portfolio', QuoteSym) = 0
               /\ rq.price * rq.qty < UsdcHeld
                    => /\ result'[1] = "ok"
                       /\ getAssetBalance(portfolio', QuoteSym)
                              = UsdcHeld - rq.price * rq.qty ]_vars

\* 100 USDC were deposited, a buy of 1 BTC at 100 took all of it, and the next
\* buy, with no USDC row left, was rejected
BuyAboveUsdcBalanceWitness ==
    /\ result[1] = InsufficientUsdc
    /\ Len(trades) = 1
    /\ TradeContent(trades[1]) = <<"BTC", "buy", 1, 100, "EXECUTED">>
    /\ portfolio["BTC"] = Row(1, <<100, 1>>)
    /\ ~portfolio[QuoteSym].present
    /\ funded = 1

\* C20 (deposits and withdrawals): a withdrawal of more than the USDC balance,
\* or with no USDC row, is answered with the insufficient-USDC error and
\* leaves every portfolio row as it was; an accepted withdrawal returns the
\* old balance minus the amount and a deposit the old balance plus the amount,
\* a missing row counting as 0, and the balance stored afterwards is the
\* balance returned.
UsdcFundsUpdate ==
    [][ \A body \in FundsBodies :
            (body.amount > 0 /\ PostUpdateUSDCBalance(body))
            => LET out == updateUSDCBalanceDirect(portfolio, body.amount, body.action)
               IN  IF body.action = "withdraw"
                      /\ (~portfolio[QuoteSym].present \/ body.amount > UsdcHeld)
                   THEN /\ out.result = "Insufficient USDC balance"
                        /\ out.portfolio = portfolio
                        /\ response'.status = 400
                        /\ response'.error = "Insufficient USDC balance"
                        /\ portfolio' = portfolio
                   ELSE /\ out.result = "ok"
                        /\ out.balance = IF body.action = "withdraw"
                                         THEN UsdcHeld - body.amount
                                         ELSE UsdcHeld + body.amount
                        /\ response'.status = 200
                        /\ response'.usdc_balance = out.balance
                        /\ getAssetBalance(portfolio', QuoteSym) = out.balance
                        /\ \A b \in BaseSyms : portfolio'[b] = portfolio[b] ]_vars

\* 100 USDC were deposited and a withdrawal of 300 was then rejected: the
\* 100 USDC are still there
UsdcFundsUpdateWitness ==
    /\ funded = 2
    /\ response = ServiceError("funds", 400, "Insufficient USDC balance")
    /\ result[1] = "Insufficient USDC balance"
    /\ portfolio[QuoteSym] = Row(100, <<1, 1>>)
    /\ trades = <<>>

\* C21 (append-only trade history): no statement of any handler updates or
\* deletes a trade row: after every step the trade rows are the rows before
\* it, unchanged in price, quantity, side and timestamp, plus at most one
\* new row.  This covers every statement of every handler, those of
\* requests that fail included.
TradesAppendOnly ==
    [][/\ Len(trades') \in {Len(trades), Len(trades) + 1}
       /\ SubSeq(trades', 1, Len(trades)) = trades]_vars

\* a second trade of an asset was inserted behind the first, and a request
\* that failed after its INSERT left its row in place
TradesAppendOnlyWitness ==
    /\ Len(trades) = 3
    /\ trades[1].base = trades[2].base
    /\ trades[1].price # trades[2].price
    /\ \E r \in Reqs : result[r] = "Insufficient balance for sell order"

\* the sub-history of one asset, and what calculateRealizedPnL leaves for it
SubHistory(tr, b) == SelectSeq(tr, LAMBDA t : t.base = b)
PnLReplay(tr) == replayRealizedPnL([s \in BaseSyms |-> <<>>], 0, executedTrades(tr))

\* C22 (lot queues isolated per asset): in calculateRealizedPnL a sell only
\* consumes lots of its own asset: the queue the replay of the whole history
\* leaves for an asset is the queue the replay of that asset's sub-history
\* leaves, and the realized PnL of the interleaved history is the sum of the
\* realized PnLs of the per-asset sub-histories.  (A history of one asset is
\* its own sub-history.)
RealizedPnLPerAsset ==
    (\E i, j \in 1..Len(trades) : trades[i].base # trades[j].base)
    => LET whole == PnLReplay(trades)
           btc == PnLReplay(SubHistory(trades, "BTC"))
           eth == PnLReplay(SubHistory(trades, "ETH"))
       IN  /\ whole.queues["BTC"] = btc.queues["BTC"]
           /\ whole.queues["ETH"] = eth.queues["ETH"]
           /\ whole.realizedPnL = btc.realizedPnL + eth.realizedPnL

\* trades of two assets alternate and both assets have realized a PnL
RealizedPnLPerAssetWitness ==
    /\ Len(trades) = 4
    /\ \A i \in 1..3 : trades[i].base # trades[i + 1].base
    /\ \A b \in BaseSyms : calculateRealizedPnL(SubHistory(trades, b)) # 0

\* rows in the order in which createOrder applied them
InApplicationOrder(rows) ==
    \A i, j \in 1..Len(rows) : i < j => rows[i].id < rows[j].id

\* C23 (replay order): whatever the createOrder calls and the clock, every
\* result that the ORDER BY created_at of recalculateAverageCostFIFO and of
\* calculateRealizedPnL may return lists the trades in the order in which
\* createOrder applied them, also when two rows carry the same created_at.
ReplayInApplicationOrder ==
    /\ \A b \in BaseSyms :
           \A rows \in tradesOfAssetOrderings(trades, b) : InApplicationOrder(rows)
    /\ \A rows \in executedTradesOrderings(trades) : InApplicationOrder(rows)

\* C24 (replay inconsistency unreachable): whenever updatePortfolio is about
\* to call recalculateAverageCostFIFO after a sell, the lots left by replaying
\* the stored trades of the asset add up to the expectedRemainingQuantity it
\* passes (current quantity - sold quantity), so the 'Quantity mismatch'
\* branch is not taken.
ReplayQuantityConsistent ==
    \A r \in Reqs :
        pc[r] = "upRecalc"
            => ~quantityMismatch(tradesOfAsset(trades, req[r].base), plan[r].quantity)

\* C25 (replay mismatch is fatal): when recalculateAverageCostFIFO finds that
\* the replayed quantity differs from the expected remaining quantity, the
\* request ends there with an error and the portfolio is left as it was.
ReplayMismatchFatal ==
    [][\A r \in Reqs :
          (/\ pc[r] = "upRecalc"
           /\ pc'[r] # "upRecalc"
           /\ quantityMismatch(tradesOfAsset(trades, req[r].base), plan[r].quantity))
          => /\ pc'[r] = "idle"
             /\ result'[r] \notin {"ok", "pending"}
             /\ portfolio' = portfolio]_vars

\* no request has been handled yet
NoRequestYet == \A r \in Reqs : result[r] = "none"

\* every trade history of one asset of at most MaxHistory rows, the ones no
\* sequence of accepted orders produces (a sell before any buy) included
Histories(b) ==
    UNION {{[i \in 1..n |-> TradeRow(i, f[i], i)] :
               f \in [1..n -> {rq \in Orders : rq.base = b}]} : n \in 0..MaxHistory}

LotQueues ==
    UNION {[1..n -> [quantity : Qtys, price : Prices]] : n \in 0..MaxHistory}

\* the first k lots of a queue, and the lots behind them
FirstLots(queue, k) == SubSeq(queue, 1, k)
LaterLots(queue, k) == SubSeq(queue, k + 1, Len(queue))

\* the history before its newest row
EarlierTrades == SubSeq(trades, 1, Len(trades) - 1)

\* C27 (lot boundary): a sell whose quantity is the sum of the first k open
\* lots removes exactly those k lots and leaves lot k+1 and the later lots
\* with their quantity and entry price, in both replays: the loop stops when
\* nothing of the sell remains.  Realized PnL takes the k lots in full.
LotBoundarySell ==
    /\ NoRequestYet =>
         \A queue \in LotQueues : \A k \in 1..Len(queue) : \A price \in Prices :
             LET sell == totalQuantityOf(FirstLots(queue, k))
                 m == matchSellPnL(queue, sell, price, 0)
             IN  /\ matchSellQueue(queue, sell) = LaterLots(queue, k)
                 /\ m.queue = LaterLots(queue, k)
                 /\ m.unmatched = 0
                 /\ m.pnl = price * sell - totalCostOf(FirstLots(queue, k))
    /\ (trades # <<>> /\ LastTrade.side = "sell") =>
         LET b == LastTrade.base
             lots == OpenLots(EarlierTrades, b)
         IN  \A k \in 1..Len(lots) :
                 totalQuantityOf(FirstLots(lots, k)) = LastTrade.qty
                 => /\ OpenLots(trades, b) = LaterLots(lots, k)
                    /\ PnLLots(trades, b) = LaterLots(lots, k)
                    /\ lotQueue[b] = LotUnits(LaterLots(lots, k))
                    /\ portfolio[b] = PositionOf(LotUnits(LaterLots(lots, k)))
                    /\ calculateRealizedPnL(trades) - calculateRealizedPnL(EarlierTrades)
                           = LastTrade.price * LastTrade.qty
                             - totalCostOf(FirstLots(lots, k))

\* Buy(1 @ 100), Buy(1 @ 120), then a sell of exactly the first lot: the
\* second lot is left as it was
LotBoundarySellWitness ==
    /\ Len(trades) = 3
    /\ OpenLots(EarlierTrades, "BTC") = <<[quantity |-> 1, price |-> 100],
                                          [quantity |-> 1, price |-> 120]>>
    /\ LastTrade.base = "BTC" /\ LastTrade.side = "sell" /\ LastTrade.qty = 1
    /\ result[1] = "ok"
    /\ OpenLots(trades, "BTC") = <<[quantity |-> 1, price |-> 120]>>
    /\ portfolio["BTC"] = Row(1, <<120, 1>>)

\* every lot of the queue has a strictly positive quantity
AllPositive(queue) == \A i \in 1..Len(queue) : queue[i].quantity > 0

\* what one processed trade may do to a queue: a buy appends its lot at the
\* tail; a sell drops lots from the head and may shrink the new head, which
\* keeps its price and a positive quantity; the other lots stay in place
QueueStep(before, after, trade) ==
    IF trade.side = "buy"
    THEN after = Append(before, [quantity |-> trade.qty, price |-> trade.price])
    ELSE /\ Len(after) <= Len(before)
         /\ LET d == Len(before) - Len(after)
            IN  /\ \A i \in 2..Len(after) : after[i] = before[i + d]
                /\ after # <<>> => /\ after[1].price = before[1 + d].price
                                   /\ after[1].quantity <= before[1 + d].quantity

\* the queues of asset b after every processed row of history h, in both replays
ReplayStepsOk(h, b) ==
    \A n \in 1..Len(h) :
        LET before == OpenLots(SubSeq(h, 1, n - 1), b)
            after == OpenLots(SubSeq(h, 1, n), b)
            pnlBefore == PnLLots(SubSeq(h, 1, n - 1), b)
            pnlAfter == PnLLots(SubSeq(h, 1, n), b)
        IN  /\ AllPositive(after) /\ AllPositive(pnlAfter)
            /\ IF h[n].base = b
               THEN QueueStep(before, after, h[n]) /\ QueueStep(pnlBefore, pnlAfter, h[n])
               ELSE after = before /\ pnlAfter = pnlBefore

\* C28 (lot queue invariant): in both FIFO replays, after every processed
\* trade every lot has a strictly positive quantity and the lots stand in the
\* order of their buys: a lot that reaches 0 is removed in that step, and a
\* buy appends one new lot at the tail without merging or reordering.
LotsPositiveInBuyOrder ==
    /\ NoRequestYet => \A h \in Histories("BTC") : ReplayStepsOk(h, "BTC")
    /\ \A b \in BaseSyms : ReplayStepsOk(trades, b)

\* a sell consumed the oldest lot to 0, which is gone, and a later buy at
\* the price of the consumed lot stands behind the lot that was left
LotsPositiveInBuyOrderWitness ==
    /\ Len(trades) = 4
    /\ trades[3].side = "sell" /\ trades[4].side = "buy"
    /\ OpenLots(EarlierTrades, "BTC") = <<[quantity |-> 1, price |-> 120]>>
    /\ OpenLots(trades, "BTC") = <<[quantity |-> 1, price |-> 120],
                                   [quantity |-> 1, price |-> 100]>>
    /\ result[1] = "ok"

RowAfterBuy(current, quantity, price) ==
    IF ~current.present
    THEN Row(quantity, <<price, 1>>)
    ELSE Row(current.quantity + quantity,
             Frac(current.quantity * current.avg[1] + quantity * price * current.avg[2],
                  current.avg[2] * (current.quantity + quantity)))

\* C30 (buy side of updatePortfolio): on a buy updatePortfolio never throws,
\* whatever the position and the USDC balance; with no row it inserts
\* (quantity, price), with a row (q, avg) it stores q + quantity and the
\* average (q x avg + quantity x price) / (q + quantity); the other rows and
\* the realized PnL stay as they were.  The newest accepted buy of a history
\* has left that row and the realized PnL of the history before it.
BuyUpdatesPosition ==
    /\ \A rq \in Orders :
           rq.side = "buy"
           => LET current == portfolio[rq.base]
                  p == updatePortfolioPlan(current, rq)
                  after == applyWrite(portfolio, rq.base, p)
              IN  /\ p.op \in {"insert", "update"}
                  /\ ~writeFails(portfolio, rq.base, p)
                  /\ after[rq.base] = RowAfterBuy(current, rq.qty, rq.price)
                  /\ \A s \in Syms \ {rq.base} : after[s] = portfolio[s]
                  /\ calculateRealizedPnL(insertTrade(trades, rq))
                         = calculateRealizedPnL(trades)
    /\ (trades # <<>> /\ LastTrade.side = "buy")
           => LET b == LastTrade.base
                  before == PositionOf(LotUnits(OpenLots(EarlierTrades, b)))
              IN  /\ portfolio[b] = RowAfterBuy(before, LastTrade.qty, LastTrade.price)
                  /\ realized = calculateRealizedPnL(EarlierTrades)
                  /\ calculateRealizedPnL(trades) = realized

\* 2 @ 100 bought, 1 sold at 120 (realized PnL 20), then 1 bought at 120 on
\* the position (1, 100): the row is (2, 110) and realized PnL is still 20
BuyUpdatesPositionWitness ==
    /\ Len(trades) = 3
    /\ TradeContent(trades[1]) = <<"BTC", "buy", 2, 100, "EXECUTED">>
    /\ TradeContent(trades[2]) = <<"BTC", "sell", 1, 120, "EXECUTED">>
    /\ TradeContent(trades[3]) = <<"BTC", "buy", 1, 120, "EXECUTED">>
    /\ result[1] = "ok"
    /\ portfolio["BTC"] = Row(2, <<110, 1>>)
    /\ realized = 20

\* the USDC balance with the accepted trades undone: what the deposits and
\* withdrawals alone must account for
RECURSIVE QuoteFlow(_)
QuoteFlow(tr) ==
    IF tr = <<>> THEN 0
    ELSE (IF Head(tr).side = "sell" THEN Head(tr).price * Head(tr).qty
          ELSE 0 - Head(tr).price * Head(tr).qty) + QuoteFlow(Tail(tr))

NetDeposited(pf, tr) == getAssetBalance(pf, QuoteSym) - QuoteFlow(tr)

\* C31 (USDC conservation): with the operations run one after the other, the
\* USDC balance (0 without a row) is the accepted deposits minus the accepted
\* withdrawals minus price * quantity of every accepted buy plus price *
\* quantity of every accepted sell: an order never changes the balance less
\* the trade flows, an accepted deposit raises it by the amount, an accepted
\* withdrawal lowers it by the amount, a rejected call leaves it, every trade
\* row belongs to an accepted order, and the balance is never negative.
UsdcConserved ==
    [][ /\ getAssetBalance(portfolio', QuoteSym) >= 0
        /\ \A rq \in Orders :
               CreateOrderCall(rq)
               => /\ NetDeposited(portfolio', trades') = NetDeposited(portfolio, trades)
                  /\ (Len(trades') > Len(trades)) <=> (result'[1] = "ok")
        /\ \A amount \in Amounts, action \in {"add", "withdraw"} :
               UpdateUSDCBalanceCall(amount, action)
               => /\ trades' = trades
                  /\ NetDeposited(portfolio', trades')
                        = NetDeposited(portfolio, trades)
                          + (IF result'[1] # "ok" THEN 0
                             ELSE IF action = "add" THEN amount ELSE 0 - amount) ]_vars

\* 300 USDC deposited, 100 withdrawn, 2 units bought at 100, 1 sold at 120:
\* 300 - 100 - 200 + 120 = 120
UsdcConservedWitness ==
    /\ funded = 2
    /\ Len(trades) = 2
    /\ trades[1].side = "buy" /\ trades[1].price = 100 /\ trades[1].qty = 2
    /\ trades[2].side = "sell" /\ trades[2].price = 120 /\ trades[2].qty = 1
    /\ getAssetBalance(portfolio, QuoteSym) = 120


\* C32 (every sell fully matched): on every trade history the createOrder
\* calls have left behind once they all returned, whichever of the orders the
\* query may return, no sell of calculateRealizedPnL ends its matching loop
\* with quantity left over, so the 'Unmatched sell quantity' warning is never
\* reached.
SellsFullyMatched ==
    Quiescent =>
    \A rows \in executedTradesOrderings(trades) :
        ~unmatchedSellQuantity([s \in BaseSyms |-> <<>>], rows)


\* the realized and the unrealized part getPnL returns on a state
PnLParts(pf, tr, cache, market) ==
    LET out == getPnL(pf, tr, cache, market)
    IN  <<out.realized_pnl, out.unrealized_pnl>>

\* C33 (getPnL is a snapshot): a getPnL that runs next to a createOrder of
\* the same user returns the realized and unrealized PnL of the state before
\* the order or of the state after it, never the realized PnL of a history
\* holding the trade with the unrealized PnL of a position without it.
PnLIsSnapshot ==
    [][ \A market \in Markets :
            (PnLUnrealized(2, market) /\ response'.status = 200)
            => LET after == createOrder(epochBase.portfolio, epochBase.trades,
                                        epochReqs[1])
               IN  <<response'.realized_pnl, response'.unrealized_pnl>>
                      \in {PnLParts(epochBase.portfolio, epochBase.trades,
                                    priceCache, market),
                           PnLParts(after.portfolio, after.trades,
                                    priceCache, market)} ]_vars


\* C34 (mark-to-market is read-only): a getPortfolio or a getPnL, with the
\* getAssetBalance, calculateRealizedPnL and calculateUnrealizedPnL they run,
\* leaves every portfolio row and every trade row as it was; of the state
\* only the price cache may differ afterwards.  Stated the other way round:
\* a step that changes a row is no step of getPortfolio or getPnL.
MarkToMarketReadOnly ==
    [][ (\/ portfolio' # portfolio
         \/ trades' # trades
         \/ <<funded, ledgerVars>>' # <<funded, ledgerVars>>)
        => ~ \E market \in Fetches(portfolio, priceCache) :
                 GetPortfolio(market) \/ GetPnL(market) ]_vars

\* a PnL was served on a position with a sell in its history, and the price
\* fetched for it is now cached
MarkToMarketReadOnlyWitness ==
    /\ response.kind = "pnl" /\ response.status = 200
    /\ \E b \in BaseSyms :
          /\ portfolio[b].present
          /\ priceCache[b].present
          /\ sold[b] > 0


\* C35 (one-minute price cache): a getPrice less than 60000 ms after the
\* symbol's price was stored returns the stored price, does not contact the
\* remote service and leaves the cache alone; a getPrice at 60000 ms or later,
\* or with nothing stored, contacts the remote service; a quote it obtains is
\* returned and stored with age 0; after a failure it returns the fallback
\* price and stores nothing, so the next call contacts the service again.
PriceCachedOneMinute ==
    [][ \A symbol \in BaseSyms, lookup \in TimedLookups :
            GetPriceCall(symbol, lookup)
            => LET entry == priceCache[symbol]
                   quoted == lookup.kind = "quote"
               IN  IF entry.present /\ entry.age < 60000
                   THEN /\ response'.price = entry.price
                        /\ ~response'.contacted
                        /\ priceCache' = priceCache
                   ELSE /\ response'.contacted
                        /\ quoted => /\ response'.price
                                          = actualPriceOf(lookup.price, lookup.expo)
                                     /\ priceCache'[symbol]
                                          = StoredAt(response'.price, 0)
                        /\ ~quoted => /\ response'.price = fallbackPrice(symbol)
                                      /\ priceCache' = priceCache
                                      /\ ~(priceCache'[symbol].present
                                           /\ priceCache'[symbol].age < 60000) ]_vars

\* the BTC price stored 60000 ms ago was not served any more: the remote
\* service was contacted, failed, the fallback 90000 was returned, and the
\* old entry is still the one in the cache
PriceCachedOneMinuteWitness ==
    /\ response.kind = "price" /\ response.symbol = "BTC"
    /\ response.contacted
    /\ response.price = 90000
    /\ priceCache["BTC"].present
    /\ priceCache["BTC"].age = 60000
    /\ priceCache["BTC"].price # 90000


RECURSIVE Pow2(_)
Pow2(n) == IF n = 0 THEN 1 ELSE 2 * Pow2(n - 1)

RetryRunning == req[1] = StartupReq
RetryFailures == Len(SelectSeq(plan[1].attempts, LAMBDA o : o # "ok"))

\* what connectWithRetry has done so far is what the claim allows
RetryStepsOk ==
    RetryRunning =>
    LET l == plan[1]
        n == Len(l.attempts)
    IN  /\ n <= l.maxRetries
        /\ \A k \in 1..n : l.attempts[k] = "ok" => (k = n /\ result[1] = "ok")
        /\ \A k \in 1..Len(l.waited) : l.waited[k] = DefaultDelay * Pow2(k - 1)
        /\ result[1] = "pending" => Len(l.waited) = RetryFailures
        /\ result[1] = "ok" => /\ pc[1] = "idle"
                               /\ l.attempts[n] = "ok"
                               /\ Len(l.waited) = n - 1
        /\ (pc[1] = "idle" /\ result[1] # "ok")
           => /\ n = l.maxRetries
              /\ RetryFailures = l.maxRetries
              /\ result[1] = l.attempts[n]
              /\ Len(l.waited) = l.maxRetries - 1

\* C36 (connectWithRetry terminates): once called, connectWithRetry ends; it
\* makes at most maxRetries attempts, returns at the first one that succeeds,
\* has waited delay * 2^i ms after the i-th failed attempt (i from 0) before
\* the next attempt, and after the maxRetries-th failure rethrows the error
\* of that attempt without another wait.
ConnectWithRetryTerminates ==
    /\ []RetryStepsOk
    /\ (pc[1] # "idle") ~> (pc[1] = "idle" /\ result[1] # "pending")

\* five attempts failed, the last one in the query; 2000, 4000, 8000 and
\* 16000 ms were waited and the error of the fifth attempt was rethrown
ConnectWithRetryTerminatesWitness ==
    /\ RetryRunning
    /\ pc[1] = "idle"
    /\ Len(plan[1].attempts) = 5
    /\ plan[1].waited = <<2000, 4000, 8000, 16000>>
    /\ result[1] = "Connection terminated unexpectedly"
    /\ plan[1].attempts[4] = "connect ECONNREFUSED"


\* C37 (unknown asset): a createOrder whose base or quote symbol is not in
\* the assets table is rejected with the asset-not-found error, also when
\* the balance would not have covered the order, and no trade row, position
\* or USDC balance is created or changed.
UnknownAssetRejected ==
    [][ \A request \in ServiceRequests :
            (/\ CreateOrderRequestCall(request)
             /\ \/ request.base_symbol \notin assetsTable
                \/ request.quote_symbol \notin assetsTable)
            => /\ result'[1] \in {"Base asset not found", "Quote asset not found"}
               /\ trades' = trades
               /\ portfolio' = portfolio
               /\ UNCHANGED ledgerVars ]_vars

\* with 100 USDC held and one trade made, an order on a known base asset
\* against an unknown quote symbol was rejected
UnknownAssetRejectedWitness ==
    /\ result[1] = "Quote asset not found"
    /\ Len(trades) = 1
    /\ getAssetBalance(portfolio, QuoteSym) = 100


\* C38 (documented statuses): every error answer of a handler carries the
\* documented status: 500 when a database query failed, 400 when the body
\* failed the schema or a business rule rejected the request; for
\* create_order and update_usdc_balance as for the get_ handlers.
FailuresHaveDocumentedStatus ==
    (response.kind # "none" /\ response.status >= 400)
    => response.status = IF response.served /\ response.error \in QueryErrors
                         THEN 500 ELSE 400


====
